---- MODULE Spec2Model ----
(***************************************************************************)
(* The application core of gitagrip: the AppService orchestrator           *)
(* (crates/app/src/services/app_service.rs), the ReadProjection it folds   *)
(* events into (crates/core/src/app/queries.rs) and the path registry of   *)
(* the GitAdapter (crates/app/src/adapters/git.rs).                        *)
(*                                                                         *)
(* Paths are sequences of segments below the filesystem root. A RepoId is  *)
(* "name#path" in the source, a function of the path alone; where every    *)
(* segment is valid UTF-8 it is represented by the path, and the discovery *)
(* section formats it as the source does.                                  *)
(***************************************************************************)
EXTENDS Integers, Sequences, FiniteSets, TLC

\* ------------------------------------------------------------------ bounds
\* Number of commands the front end submits in one run.
MaxCommands == 2

\* The limit of a ShowLog command.
LogLimit == 1

\* Number of events folded into one projection when apply is exercised alone.
MaxFold == 3

\* ------------------------------------------------------- the file system
\* Directories a Rescan may name.
Bases == {<<"base">>, <<"base", "work">>, <<"base", "work", "team">>, <<"base", "b">>}

\* Directories that directly contain a .git directory.
RepoDirs == {<<"base", "work", "team", "a">>, <<"base", "b">>}

\* A RepoId that no scan ever reports.
GoneId == <<"base", "gone">>

RepoIds == RepoDirs \cup {GoneId}

NoId == <<>>

IsPrefix(p, q) == Len(p) <= Len(q) /\ SubSeq(q, 1, Len(p)) = p

\* Path::file_name
FileName(p) == IF p = <<>> THEN "" ELSE p[Len(p)]

\* Path::parent
Parent(p) == SubSeq(p, 1, Len(p) - 1)

\* Segments are OsStr: any bytes. Two segments that are not valid UTF-8,
\* differing in one byte.
NonUtf8 == {"<ff>", "<fe>"}

\* OsStr::to_str: Some for valid UTF-8 only.
IsUtf8(segment) == segment \notin NonUtf8

\* OsStr::to_string_lossy; also what Path::display prints for a segment:
\* every invalid byte sequence becomes U+FFFD.
to_string_lossy(segment) == IF IsUtf8(segment) THEN segment ELSE "<?>"

\* A group label taken from the lossy form of the first component.
determine_auto_group_lossy(repo_path, base_path) ==
    IF IsPrefix(base_path, repo_path) /\ Len(repo_path) > Len(base_path) + 1
    THEN "Auto: " \o to_string_lossy(repo_path[Len(base_path) + 1])
    ELSE "Ungrouped"

\* FsDiscoveryAdapter::determine_auto_group
determine_auto_group(repo_path, base_path) ==
    IF IsPrefix(base_path, repo_path)
    THEN LET relative_path == SubSeq(repo_path, Len(base_path) + 1, Len(repo_path))
         IN  IF relative_path = <<>>
             THEN "Ungrouped"
             ELSE LET parent == Parent(relative_path)
                  IN  IF parent = <<>>
                      THEN "Ungrouped"
                      ELSE IF IsUtf8(parent[1])
                           THEN "Auto: " \o parent[1]
                           ELSE "Ungrouped"
    ELSE "Ungrouped"

\* Metadata that keeps the path of a repository relative to the scan root.
RepoMetaRelative(p, base) ==
    [name |-> FileName(p),
     path |-> IF IsPrefix(base, p) THEN SubSeq(p, Len(base) + 1, Len(p)) ELSE p,
     auto_group |-> determine_auto_group(p, base)]

\* RepoMeta
RepoMeta(p, base) ==
    [name |-> to_string_lossy(FileName(p)), path |-> p,
     auto_group |-> determine_auto_group(p, base)]

NoMeta == [name |-> "", path |-> <<>>, auto_group |-> ""]

\* The orders in which a walk of base can report the repositories below it:
\* the walk gives no sort guarantee.
RECURSIVE Perms(_)
Perms(S) ==
    IF S = {} THEN {<<>>}
    ELSE UNION {{<<x>> \o t : t \in Perms(S \ {x})} : x \in S}

\* DiscoveryPort::scan on success: one (RepoId, RepoMeta) per repository at
\* or below base (the walk starts with base itself).
ScanResults(base) ==
    {[i \in 1..Len(s) |-> [id |-> s[i], meta |-> RepoMeta(s[i], base)]] :
        s \in Perms({p \in RepoDirs : IsPrefix(base, p)})}

\* ------------------------------------------------------------ RepoStatus
\* The fields of RepoStatus an observer can tell two refreshes apart by.
StatusValues ==
    {[branch_name |-> "main", is_dirty |-> FALSE],
     [branch_name |-> "dev", is_dirty |-> TRUE]}

NoStatus == [branch_name |-> "", is_dirty |-> FALSE]

\* ----------------------------------------------------------------- Event
\* enum Event. op is the number of the background task that sent the event
\* (0: sent by the loop itself); no handler reads it.
Ev(type, id, meta, status, ok, msg, commits, op) ==
    [type |-> type, id |-> id, meta |-> meta, status |-> status, ok |-> ok,
     msg |-> msg, commits |-> commits, op |-> op]

RepoDiscovered(id, meta, op) == Ev("RepoDiscovered", id, meta, NoStatus, FALSE, "", 0, op)
ScanCompleted(op) == Ev("ScanCompleted", NoId, NoMeta, NoStatus, FALSE, "", 0, op)
StatusUpdated(id, status, op) == Ev("StatusUpdated", id, NoMeta, status, FALSE, "", 0, op)
RepoFetched(id, ok, msg, op) == Ev("RepoFetched", id, NoMeta, NoStatus, ok, msg, 0, op)
LogLoaded(id, commits, op) == Ev("LogLoaded", id, NoMeta, NoStatus, FALSE, "", commits, op)
Error(id, msg, op) == Ev("Error", id, NoMeta, NoStatus, FALSE, msg, 0, op)
QuitRequested == Ev("QuitRequested", NoId, NoMeta, NoStatus, FALSE, "", 0, 0)
\* FetchProgress { id, done, total }: no code sends it and apply ignores its
\* fields, so done and total are left out.
FetchProgress(id, op) == Ev("FetchProgress", id, NoMeta, NoStatus, FALSE, "", 0, op)

NoEvent == Ev("", NoId, NoMeta, NoStatus, FALSE, "", 0, 0)

\* --------------------------------------------------------------- Command
\* enum Command
Cmd(type, base, ids, prune, id, name, range, limit) ==
    [type |-> type, base |-> base, ids |-> ids, prune |-> prune, id |-> id,
     name |-> name, range |-> range, limit |-> limit]

Rescan(base) == Cmd("Rescan", base, <<>>, FALSE, NoId, "", "", 0)
RefreshStatus(ids) == Cmd("RefreshStatus", <<>>, ids, FALSE, NoId, "", "", 0)
FetchAll(prune) == Cmd("FetchAll", <<>>, <<>>, prune, NoId, "", "", 0)
OpenRepo(id) == Cmd("OpenRepo", <<>>, <<>>, FALSE, id, "", "", 0)
ToggleGroup(name) == Cmd("ToggleGroup", <<>>, <<>>, FALSE, NoId, name, "", 0)
ShowLog(id, range, limit) == Cmd("ShowLog", <<>>, <<>>, FALSE, id, "", range, limit)
Quit == Cmd("Quit", <<>>, <<>>, FALSE, NoId, "", "", 0)

\* Option<String>::None of ShowLog.range
NoRange == "<none>"

\* Paths of the two repositories and of the directories above the first.
RepoA == <<"base", "work", "team", "a">>
RepoB == <<"base", "b">>
Work == <<"base", "work">>
Team == <<"base", "work", "team">>

\* The sessions explored: config.base_dir, and the commands the front end
\* sends, in this order, each at any moment of the run.
Script(base_dir, commands) == [base_dir |-> base_dir, commands |-> commands]

Scripts ==
    {Script(Work, <<RefreshStatus(<<RepoA>>), RefreshStatus(<<RepoA>>)>>),
     Script(Work, <<RefreshStatus(<<GoneId, RepoA>>)>>),
     Script(Work, <<Rescan(Work)>>),
     Script(Work, <<Rescan(Team)>>),
     Script(Work, <<Rescan(RepoB)>>),
     Script(Work, <<FetchAll(TRUE), OpenRepo(RepoA)>>),
     Script(Work, <<Quit, RefreshStatus(<<GoneId>>), Quit>>),
     Script(Work, <<ShowLog(RepoA, NoRange, LogLimit), OpenRepo(GoneId), ToggleGroup("g")>>),
     Script(Work, <<ToggleGroup("g"), FetchAll(FALSE)>>),
     Script(<<"base">>, <<Quit>>)}

\* A session is a script cut at MaxCommands commands.
Min(m, n) == IF m <= n THEN m ELSE n

Cut(scripts) ==
    {Script(sc.base_dir, SubSeq(sc.commands, 1, Min(Len(sc.commands), MaxCommands))) :
        sc \in scripts}

Sessions == Cut(Scripts)

\* The sessions in which the front end asks for no refresh and no rescan.
QuietSessions ==
    Cut({sc \in Scripts :
            \A k \in DOMAIN sc.commands :
                sc.commands[k].type \notin {"RefreshStatus", "Rescan"}})

\* ------------------------------------------------------ background tasks
\* One entry of the JoinSet: the operation, where it stands, and who
\* started it (origin, born: the number of events handled before it).
Task(kind, id, base, remote, prune, range, limit, origin, born) ==
    [kind |-> kind, id |-> id, base |-> base, remote |-> remote, prune |-> prune,
     range |-> range, limit |-> limit, state |-> "running", found |-> FALSE,
     result |-> "", pending |-> <<>>, origin |-> origin, born |-> born]

VARIABLES
    loop,          \* where AppService stands: "new", "select", "handle_event", "exited"
                   \* ("apply" where apply is exercised alone)
    command_rx,    \* commands sent on command_tx and not yet received
    event_rx,      \* events sent on event_tx and not yet received
    sent,          \* every event ever sent on event_tx, oldest first
    external,      \* events sent on event_tx_external, oldest first
    event,         \* the event handle_event is working on
    projection,    \* ReadProjection
    repo_paths,    \* GitAdapter.repo_paths: RepoId -> path
    tasks,         \* every task ever spawned on the JoinSet, in spawn order
    folded,        \* events passed to projection.apply, oldest first
    handled,       \* commands handle_command has returned from, oldest first
    submitted,     \* number of commands sent on command_tx
    session        \* config.base_dir and the commands the front end sends

vars == <<loop, command_rx, event_rx, sent, external, event, projection, repo_paths,
          tasks, folded, handled, submitted, session>>

\* ------------------------------------------------------- ReadProjection
\* ReadProjection::default
EmptyProjection ==
    [repositories |-> <<>>, statuses |-> <<>>, groups |-> <<>>,
     scanning |-> FALSE, refreshing_status |-> FALSE]

\* HashMap::insert
Insert(m, k, v) == [x \in DOMAIN m \cup {k} |-> IF x = k THEN v ELSE m[x]]

\* A projection that patches a known status instead of replacing it: the
\* dirty flag of the earlier status survives.
applyPatching(p, e) ==
    CASE e.type = "RepoDiscovered" ->
            [p EXCEPT !.repositories = Insert(p.repositories, e.id, e.meta)]
      [] e.type = "ScanCompleted" ->
            [p EXCEPT !.scanning = FALSE]
      [] e.type = "StatusUpdated" ->
            [p EXCEPT !.statuses = Insert(p.statuses, e.id,
                IF e.id \in DOMAIN p.statuses
                THEN [e.status EXCEPT !.is_dirty = p.statuses[e.id].is_dirty]
                ELSE e.status)]
      [] OTHER -> p

\* A projection that looks beyond its arguments: ScanCompleted leaves the
\* scanning flag up while background tasks are in flight.
applyObserving(p, e) ==
    CASE e.type = "RepoDiscovered" ->
            [p EXCEPT !.repositories = Insert(p.repositories, e.id, e.meta)]
      [] e.type = "ScanCompleted" ->
            [p EXCEPT !.scanning = \E i \in DOMAIN tasks : tasks[i].state # "finished"]
      [] e.type = "StatusUpdated" ->
            [p EXCEPT !.statuses = Insert(p.statuses, e.id, e.status)]
      [] OTHER -> p

\* A projection that raises the scanning flag whenever a repository turns up.
applyFlagging(p, e) ==
    CASE e.type = "RepoDiscovered" ->
            [p EXCEPT !.repositories = Insert(p.repositories, e.id, e.meta),
                      !.scanning = TRUE]
      [] e.type = "ScanCompleted" ->
            [p EXCEPT !.scanning = FALSE]
      [] e.type = "StatusUpdated" ->
            [p EXCEPT !.statuses = Insert(p.statuses, e.id, e.status)]
      [] OTHER -> p

\* A projection that forgets every status when a scan completes.
applyResetting(p, e) ==
    CASE e.type = "RepoDiscovered" ->
            [p EXCEPT !.repositories = Insert(p.repositories, e.id, e.meta)]
      [] e.type = "ScanCompleted" ->
            [p EXCEPT !.scanning = FALSE, !.statuses = <<>>]
      [] e.type = "StatusUpdated" ->
            [p EXCEPT !.statuses = Insert(p.statuses, e.id, e.status)]
      [] OTHER -> p

\* ReadProjection::apply
apply(p, e) ==
    CASE e.type = "RepoDiscovered" ->
            [p EXCEPT !.repositories = Insert(p.repositories, e.id, e.meta)]
      [] e.type = "ScanCompleted" ->
            [p EXCEPT !.scanning = FALSE]
      [] e.type = "StatusUpdated" ->
            [p EXCEPT !.statuses = Insert(p.statuses, e.id, e.status)]
      [] OTHER -> p


\* ------------------------------------------------------------ AppService
\* AppService::new, and the session ahead.
InitWith(sessions) ==
    /\ loop = "new"
    /\ command_rx = <<>>
    /\ event_rx = <<>>
    /\ sent = <<>>
    /\ external = <<>>
    /\ event = NoEvent
    /\ projection = EmptyProjection
    /\ repo_paths = <<>>
    /\ tasks = <<>>
    /\ folded = <<>>
    /\ handled = <<>>
    /\ submitted = 0
    /\ session \in sessions

Init == InitWith(Sessions)

\* A send that delivers the event twice.
SendTwice(e) ==
    /\ event_rx' = Append(Append(event_rx, e), e)
    /\ sent' = Append(Append(sent, e), e)

\* event_tx.send
Send(e) == event_rx' = Append(event_rx, e) /\ sent' = Append(sent, e)

\* AppService::start_discovery_for_path: spawn one discovery task.
start_discovery_for_path(ts, base_dir, origin, born) ==
    Append(ts, Task("scan", NoId, base_dir, "", FALSE, "", 0, origin, born))

\* A refresh that is started for commands and fetches only.
refresh_unless_discovered(ts, id, origin, born) ==
    IF origin = "RepoDiscovered" THEN ts
    ELSE Append(ts, Task("status", id, <<>>, "", FALSE, "", 0, origin, born))

\* A refresh that is not started after a fetch.
refresh_unless_fetched(ts, id, origin, born) ==
    IF origin = "RepoFetched" THEN ts
    ELSE Append(ts, Task("status", id, <<>>, "", FALSE, "", 0, origin, born))

\* A refresh that is not started for a repository the projection knows
\* already when it is discovered again.
refresh_unless_known(ts, id, origin, born) ==
    IF origin = "RepoDiscovered" /\ id \in DOMAIN projection.repositories THEN ts
    ELSE Append(ts, Task("status", id, <<>>, "", FALSE, "", 0, origin, born))

\* AppService::refresh_repository_status: spawn one status task.
refresh_repository_status(ts, id, origin, born) ==
    Append(ts, Task("status", id, <<>>, "", FALSE, "", 0, origin, born))

\* A fetch whose repository the loop opens itself before it spawns the task.
fetch_repository_inline(ts, id, remote, prune, origin, born) ==
    Append(ts, [Task("fetch", id, <<>>, remote, prune, "", 0, origin, born)
                    EXCEPT !.state = "calling", !.found = id \in DOMAIN repo_paths])

\* AppService::fetch_repository: spawn one fetch task.
fetch_repository(ts, id, remote, prune, origin, born) ==
    Append(ts, Task("fetch", id, <<>>, remote, prune, "", 0, origin, born))

\* AppService::load_repository_log: spawn one log task.
load_repository_log(ts, id, range, limit, origin, born) ==
    Append(ts, Task("log", id, <<>>, "", FALSE, range, limit, origin, born))

\* A RefreshStatus that stops after the first id.
RefreshFirstOnly(ts, ids, origin, born) ==
    IF ids = <<>> THEN ts
    ELSE refresh_repository_status(ts, Head(ids), origin, born)

\* for id in ids { self.refresh_repository_status(id).await?; }
RECURSIVE RefreshEach(_, _, _, _)
RefreshEach(ts, ids, origin, born) ==
    IF ids = <<>> THEN ts
    ELSE RefreshEach(refresh_repository_status(ts, Head(ids), origin, born),
                     Tail(ids), origin, born)

\* A FetchAll that fetches every repository on disk, known or not.
FetchEachOnDisk(ts, ids, prune, origin, born) ==
    fetch_repository(fetch_repository(ts, RepoA, "origin", prune, origin, born),
                     RepoB, "origin", prune, origin, born)

\* for id in repo_ids { self.fetch_repository(id, "origin", prune).await?; }
RECURSIVE FetchEach(_, _, _, _, _)
FetchEach(ts, ids, prune, origin, born) ==
    IF ids = <<>> THEN ts
    ELSE FetchEach(fetch_repository(ts, Head(ids), "origin", prune, origin, born),
                   Tail(ids), prune, origin, born)

\* AppService::start: start_discovery(&config), then run_event_loop.
Start ==
    /\ loop = "new"
    /\ tasks' = start_discovery_for_path(tasks, session.base_dir, "start", Len(external))
    /\ loop' = "select"
    /\ UNCHANGED <<command_rx, event_rx, sent, external, event, projection,
                   repo_paths, folded, handled, submitted, session>>

\* The front end sends a command on command_tx.
SubmitCommand ==
    /\ submitted < Len(session.commands)
    /\ command_rx' = Append(command_rx, session.commands[submitted + 1])
    /\ submitted' = submitted + 1
    /\ UNCHANGED <<loop, event_rx, sent, external, event, projection, repo_paths,
                   tasks, folded, handled, session>>

\* run_event_loop, command branch: AppService::handle_command. (The third
\* branch of the select, join_next, takes a finished task off the JoinSet and
\* only logs its result: it changes nothing of the state below, where tasks
\* keeps every task ever spawned.)
HandleCommand ==
    /\ loop = "select"
    /\ command_rx # <<>>
    /\ LET cmd == Head(command_rx)
           born == Len(external)
       IN  /\ command_rx' = Tail(command_rx)
           /\ handled' = Append(handled, cmd)
           /\ CASE cmd.type = "Rescan" ->
                    /\ tasks' = start_discovery_for_path(tasks, cmd.base, "Rescan", born)
                    /\ UNCHANGED <<event_rx, sent>>
                [] cmd.type = "RefreshStatus" ->
                    /\ tasks' = RefreshEach(tasks, cmd.ids, "RefreshStatus", born)
                    /\ UNCHANGED <<event_rx, sent>>
                [] cmd.type = "FetchAll" ->
                    \* the keys of a HashMap come in no particular order
                    /\ \E repo_ids \in Perms(DOMAIN projection.repositories) :
                          tasks' = FetchEach(tasks, repo_ids, cmd.prune, "FetchAll", born)
                    /\ UNCHANGED <<event_rx, sent>>
                [] cmd.type = "OpenRepo" ->
                    /\ Send(Error(cmd.id, "External app opening not implemented yet", 0))
                    /\ UNCHANGED tasks
                [] cmd.type = "ToggleGroup" ->
                    UNCHANGED <<tasks, event_rx, sent>>
                [] cmd.type = "ShowLog" ->
                    /\ LET range_str == IF cmd.range = NoRange THEN "HEAD" ELSE cmd.range
                       IN  tasks' = load_repository_log(tasks, cmd.id, range_str,
                                                        cmd.limit, "ShowLog", born)
                    /\ UNCHANGED <<event_rx, sent>>
                [] cmd.type = "Quit" ->
                    /\ Send(QuitRequested)
                    /\ UNCHANGED tasks
    /\ UNCHANGED <<loop, external, event, projection, repo_paths, folded,
                   submitted, session>>

\* run_event_loop, event branch, and the first statement of handle_event:
\* the event is received and sent on event_tx_external.
ForwardEvent ==
    /\ loop = "select"
    /\ event_rx # <<>>
    /\ event' = Head(event_rx)
    /\ event_rx' = Tail(event_rx)
    /\ external' = Append(external, Head(event_rx))
    /\ loop' = "handle_event"
    /\ UNCHANGED <<command_rx, sent, projection, repo_paths, tasks, folded,
                   handled, submitted, session>>

\* A loop that gives up after an Error event.
AfterHandleEventStops(e) == IF e.type = "Error" THEN "exited" ELSE "select"

\* Where the loop stands after handle_event returned: run_event_loop only logs
\* an Err and handle_event returns Ok(()) on every path, QuitRequested
\* included, so the select is entered again.
AfterHandleEvent(e) == "select"

\* A registry that keeps the latest repository only.
register_repo_only(paths, id, path) == Insert(<<>>, id, path)

\* GitAdapter::register_repo
register_repo(paths, id, path) == Insert(paths, id, path)

\* handle_event after the forward: the match on the event.
FoldEvent ==
    /\ loop = "handle_event"
    /\ LET born == Len(external)
       IN  CASE event.type = "RepoDiscovered" ->
                    /\ projection' = apply(projection, event)
                    /\ folded' = Append(folded, event)
                    /\ repo_paths' = register_repo(repo_paths, event.id, event.meta.path)
                    /\ tasks' = refresh_repository_status(tasks, event.id,
                                                          "RepoDiscovered", born)
             [] event.type = "RepoFetched" ->
                    /\ tasks' = IF event.ok
                                THEN refresh_repository_status(tasks, event.id,
                                                               "RepoFetched", born)
                                ELSE tasks
                    /\ projection' = apply(projection, event)
                    /\ folded' = Append(folded, event)
                    /\ UNCHANGED repo_paths
             [] event.type = "QuitRequested" ->
                    UNCHANGED <<projection, folded, repo_paths, tasks>>
             [] OTHER ->
                    /\ projection' = apply(projection, event)
                    /\ folded' = Append(folded, event)
                    /\ UNCHANGED <<repo_paths, tasks>>
    /\ loop' = AfterHandleEvent(event)
    /\ event' = NoEvent
    /\ UNCHANGED <<command_rx, event_rx, sent, external, handled, submitted, session>>

\* ------------------------------------------------------------ the workers
\* Workers that raise the refreshing flag of the projection themselves.
WorkerFrameMarking ==
    /\ projection' = [projection EXCEPT !.refreshing_status = TRUE]
    /\ UNCHANGED <<loop, command_rx, external, event, repo_paths,
                   folded, handled, submitted, session>>

\* What no step of a background task touches.
WorkerFrame ==
    UNCHANGED <<loop, command_rx, external, event, projection, repo_paths,
                folded, handled, submitted, session>>

\* The outcomes of a blocking backend call: Ok(Ok(_)), Ok(Err(_)), and Err(_)
\* when the blocking closure panicked.
Outcomes == {"ok", "err", "panic"}

\* A discovery task that reports completion before the repositories.
DiscoveryEventsCompletedFirst(i, outcome, repos) ==
    IF outcome = "ok"
    THEN <<ScanCompleted(i)>>
            \o [k \in 1..Len(repos) |-> RepoDiscovered(repos[k].id, repos[k].meta, i)]
    ELSE <<Error(NoId, "Discovery failed", i)>>

\* A discovery task that reports a failed scan and completes it all the same.
DiscoveryEventsCompletesAnyway(i, outcome, repos) ==
    CASE outcome = "ok" ->
            [k \in 1..Len(repos) |-> RepoDiscovered(repos[k].id, repos[k].meta, i)]
                \o <<ScanCompleted(i)>>
      [] outcome = "err" -> <<Error(NoId, "Discovery failed", i), ScanCompleted(i)>>
      [] outcome = "panic" -> <<Error(NoId, "Discovery task failed", i)>>

\* The discovery task: spawn_blocking(scan) returns; what the task will send.
DiscoveryEvents(i, outcome, repos) ==
    CASE outcome = "ok" ->
            [k \in 1..Len(repos) |-> RepoDiscovered(repos[k].id, repos[k].meta, i)]
                \o <<ScanCompleted(i)>>
      [] outcome = "err" -> <<Error(NoId, "Discovery failed", i)>>
      [] outcome = "panic" -> <<Error(NoId, "Discovery task failed", i)>>

ScanReturns(i) ==
    /\ i \in 1..Len(tasks)
    /\ tasks[i].kind = "scan"
    /\ tasks[i].state = "running"
    /\ \E outcome \in Outcomes :
         \E repos \in IF outcome = "ok" THEN ScanResults(tasks[i].base) ELSE {<<>>} :
            tasks' = [tasks EXCEPT ![i].state = "sending",
                                   ![i].result = outcome,
                                   ![i].pending = DiscoveryEvents(i, outcome, repos)]
    /\ UNCHANGED <<event_rx, sent>>
    /\ WorkerFrame

\* The discovery task sends its next event; after the last one it ends.
ScanSend(i) ==
    /\ i \in 1..Len(tasks)
    /\ tasks[i].kind = "scan"
    /\ tasks[i].state = "sending"
    /\ Send(Head(tasks[i].pending))
    /\ tasks' = [tasks EXCEPT ![i].pending = Tail(@),
                              ![i].state = IF Len(tasks[i].pending) = 1
                                           THEN "finished" ELSE "sending"]
    /\ WorkerFrame

\* GitAdapter::open_repo, first statement: get_repo_path looks the id up in
\* repo_paths under the read lock.
Lookup(i) ==
    /\ i \in 1..Len(tasks)
    /\ tasks[i].kind \in {"status", "fetch", "log"}
    /\ tasks[i].state = "running"
    /\ tasks' = [tasks EXCEPT ![i].state = "calling",
                              ![i].found = tasks[i].id \in DOMAIN repo_paths]
    /\ UNCHANGED <<event_rx, sent>>
    /\ WorkerFrame

\* A backend that answers for ids it has no path for.
CallOutcomesAnyId(t) == Outcomes

\* The outcomes of a backend call on a repository: an id without a registered
\* path is an error.
CallOutcomes(t) == IF t.found THEN Outcomes ELSE {"err"}

\* A status task that reports a failed call as an empty status.
StatusEventDefaulting(i, id, outcome, status) ==
    CASE outcome = "ok" -> StatusUpdated(id, status, i)
      [] outcome = "err" -> StatusUpdated(id, NoStatus, i)
      [] outcome = "panic" -> Error(id, "Status task failed", i)

\* The event of a status task (refresh_repository_status, the match on result).
StatusEvent(i, id, outcome, status) ==
    CASE outcome = "ok" -> StatusUpdated(id, status, i)
      [] outcome = "err" -> Error(id, "Status update failed", i)
      [] outcome = "panic" -> Error(id, "Status task failed", i)

CompleteStatus(i) ==
    /\ i \in 1..Len(tasks)
    /\ tasks[i].kind = "status"
    /\ tasks[i].state = "calling"
    /\ \E outcome \in CallOutcomes(tasks[i]) :
         \E status \in IF outcome = "ok" THEN StatusValues ELSE {NoStatus} :
            /\ Send(StatusEvent(i, tasks[i].id, outcome, status))
            /\ tasks' = [tasks EXCEPT ![i].state = "finished", ![i].result = outcome]
    /\ WorkerFrame

\* A fetch task that reports every returned call as fetched.
FetchEventAlwaysOk(i, id, remote, outcome) ==
    IF outcome = "panic"
    THEN RepoFetched(id, FALSE, "Fetch task failed", i)
    ELSE RepoFetched(id, TRUE, "Successfully fetched from " \o remote, i)

\* The event of a fetch task (fetch_repository, the match on result).
FetchEvent(i, id, remote, outcome) ==
    CASE outcome = "ok" -> RepoFetched(id, TRUE, "Successfully fetched from " \o remote, i)
      [] outcome = "err" -> RepoFetched(id, FALSE, "Fetch failed", i)
      [] outcome = "panic" -> RepoFetched(id, FALSE, "Fetch task failed", i)

CompleteFetch(i) ==
    /\ i \in 1..Len(tasks)
    /\ tasks[i].kind = "fetch"
    /\ tasks[i].state = "calling"
    /\ \E outcome \in CallOutcomes(tasks[i]) :
            /\ Send(FetchEvent(i, tasks[i].id, tasks[i].remote, outcome))
            /\ tasks' = [tasks EXCEPT ![i].state = "finished", ![i].result = outcome]
    /\ WorkerFrame

\* A log task that reports a failed call without saying for which repository.
LogEventUnscoped(i, id, outcome, commits) ==
    CASE outcome = "ok" -> LogLoaded(id, commits, i)
      [] outcome = "err" -> Error(NoId, "Log loading failed", i)
      [] outcome = "panic" -> Error(NoId, "Log loading task failed", i)

\* The event of a log task (load_repository_log, the match on result).
LogEvent(i, id, outcome, commits) ==
    CASE outcome = "ok" -> LogLoaded(id, commits, i)
      [] outcome = "err" -> Error(id, "Log loading failed", i)
      [] outcome = "panic" -> Error(id, "Log loading task failed", i)

CompleteLog(i) ==
    /\ i \in 1..Len(tasks)
    /\ tasks[i].kind = "log"
    /\ tasks[i].state = "calling"
    /\ \E outcome \in CallOutcomes(tasks[i]) :
         \E commits \in IF outcome = "ok" THEN 0..tasks[i].limit ELSE {0} :
            /\ Send(LogEvent(i, tasks[i].id, outcome, commits))
            /\ tasks' = [tasks EXCEPT ![i].state = "finished", ![i].result = outcome]
    /\ WorkerFrame

\* ------------------------------------------------------- specifications
Next ==
    \/ Start
    \/ SubmitCommand
    \/ HandleCommand
    \/ ForwardEvent
    \/ FoldEvent
    \/ \E i \in DOMAIN tasks : ScanReturns(i)
    \/ \E i \in DOMAIN tasks : ScanSend(i)
    \/ \E i \in DOMAIN tasks : Lookup(i)
    \/ \E i \in DOMAIN tasks : CompleteStatus(i)
    \/ \E i \in DOMAIN tasks : CompleteFetch(i)
    \/ \E i \in DOMAIN tasks : CompleteLog(i)

Spec == Init /\ [][Next]_vars

\* The steps of the loop and of the background tasks.
LoopStep == Start \/ HandleCommand \/ ForwardEvent \/ FoldEvent

WorkerStep ==
    \E i \in DOMAIN tasks :
        \/ ScanReturns(i) \/ ScanSend(i) \/ Lookup(i)
        \/ CompleteStatus(i) \/ CompleteFetch(i) \/ CompleteLog(i)

\* The runtime polls the loop whenever one of its channels is ready, and runs
\* every spawned task and every blocking call, which returns; the front end
\* may stop sending at any time.
FairSpec ==
    InitWith(QuietSessions) /\ [][Next]_vars /\ WF_vars(LoopStep) /\ WF_vars(WorkerStep)

\* ------------------------------------------------- apply, exercised alone
\* ReadProjection has public fields and a public apply: a caller may hold any
\* projection and pass any event. A projection with a group, scanning and
\* refreshing:
BusyProjection ==
    [repositories |-> <<>>, statuses |-> <<>>,
     groups |-> Insert(<<>>, "g", [name |-> "g", repos |-> <<RepoB>>]),
     scanning |-> TRUE, refreshing_status |-> TRUE]

\* One event of every variant of Event.
AnyEvents ==
    {RepoDiscovered(p, RepoMeta(p, b), 0) : p \in RepoDirs, b \in {Work, Team}}
        \cup {StatusUpdated(r, st, 0) : r \in {RepoA, GoneId}, st \in StatusValues}
        \cup {ScanCompleted(0), FetchProgress(RepoA, 0), QuitRequested,
               RepoFetched(RepoA, TRUE, "Successfully fetched from origin", 0),
               RepoFetched(RepoA, FALSE, "Fetch failed", 0),
               LogLoaded(RepoA, LogLimit, 0),
               Error(RepoA, "Status update failed", 0),
               Error(NoId, "Discovery failed", 0)}

ApplyInit ==
    /\ loop = "apply"
    /\ command_rx = <<>>
    /\ event_rx = <<>>
    /\ sent = <<>>
    /\ external = <<>>
    /\ event = NoEvent
    /\ projection \in {EmptyProjection, BusyProjection}
    /\ repo_paths = <<>>
    /\ tasks = <<>>
    /\ folded = <<>>
    /\ handled = <<>>
    /\ submitted = 0
    /\ session = Script(Work, <<>>)

\* projection.apply(&event)
ApplyEvent ==
    /\ loop = "apply"
    /\ Len(folded) < MaxFold
    /\ \E e \in AnyEvents :
          /\ event' = e
          /\ projection' = apply(projection, e)
          /\ folded' = Append(folded, e)
    /\ UNCHANGED <<loop, command_rx, event_rx, sent, external, repo_paths, tasks,
                   handled, submitted, session>>

ApplySpec == ApplyInit /\ [][ApplyEvent]_vars

\* ------------------------------------- the path registry, lock by lock
\* The same loop and workers with every acquisition of the RwLock around
\* GitAdapter.repo_paths a step of its own. The loop holds the write lock in
\* "writing"; a worker holds a read lock in the states of HoldsRead. A
\* worker goes running -> reading -> opening -> (status only: relookup ->
\* rereading ->) calling -> finished.

\* A lookup that keeps its read guard until the repository is open.
HoldsReadUntilOpen(t) == t.state \in {"reading", "opening", "rereading"}

\* get_repo_path: the read guard lives from read() to the end of the function.
HoldsRead(t) == t.state \in {"reading", "rereading"}

Readers == {i \in DOMAIN tasks : HoldsRead(tasks[i])}

\* A call of the port made by some other caller than the orchestrator.
ahead_behind(ts, id, origin, born) ==
    Append(ts, Task("ahead_behind", id, <<>>, "", FALSE, "", 0, origin, born))

\* What the loop finds when it starts: the events of a scan waiting, and the
\* tasks of the commands handled before them.
Scene(events, ts) == [events |-> events, tasks |-> ts]

Scenes ==
    {Scene(<<RepoDiscovered(RepoA, RepoMeta(RepoA, Work), 0)>>,
           RefreshEach(<<>>, <<GoneId, RepoA>>, "RefreshStatus", 0)),
     Scene(<<RepoDiscovered(RepoA, RepoMeta(RepoA, Work), 0)>>,
           fetch_repository(
               load_repository_log(<<>>, GoneId, "HEAD", LogLimit, "ShowLog", 0),
               GoneId, "origin", FALSE, "caller", 0)),
     Scene(<<RepoDiscovered(RepoA, RepoMeta(RepoA, <<"base">>), 0),
             RepoDiscovered(RepoB, RepoMeta(RepoB, <<"base">>), 0)>>,
           ahead_behind(<<>>, GoneId, "caller", 0))}

RegistryInit ==
    /\ loop = "select"
    /\ command_rx = <<>>
    /\ \E sc \in Scenes :
          /\ event_rx = sc.events
          /\ sent = sc.events
          /\ tasks = sc.tasks
    /\ external = <<>>
    /\ event = NoEvent
    /\ projection = EmptyProjection
    /\ repo_paths = <<>>
    /\ folded = <<>>
    /\ handled = <<>>
    /\ submitted = 0
    /\ session = Script(Work, <<>>)

\* run_event_loop, event branch, and handle_event up to register_repo: the
\* event is forwarded and applied; for RepoDiscovered the registration
\* follows, every other event is done with here.
TakeEvent ==
    /\ loop = "select"
    /\ event_rx # <<>>
    /\ LET e == Head(event_rx)
       IN  /\ event_rx' = Tail(event_rx)
           /\ external' = Append(external, e)
           /\ projection' = apply(projection, e)
           /\ folded' = Append(folded, e)
           /\ IF e.type = "RepoDiscovered"
              THEN event' = e /\ loop' = "register" /\ UNCHANGED tasks
              ELSE /\ event' = NoEvent
                   /\ loop' = "select"
                   /\ tasks' = IF e.type = "RepoFetched" /\ e.ok
                                THEN refresh_repository_status(tasks, e.id, "RepoFetched",
                                                               Len(external) + 1)
                                ELSE tasks
    /\ UNCHANGED <<command_rx, sent, repo_paths, handled, submitted, session>>

\* register_repo: self.repo_paths.write() returns once no guard is out.
RegisterLock ==
    /\ loop = "register"
    /\ Readers = {}
    /\ loop' = "writing"
    /\ UNCHANGED <<command_rx, event_rx, sent, external, event, projection,
                   repo_paths, tasks, folded, handled, submitted, session>>

\* register_repo: paths.insert(id, path), and the write guard is dropped.
RegisterInsert ==
    /\ loop = "writing"
    /\ repo_paths' = register_repo(repo_paths, event.id, event.meta.path)
    /\ loop' = "spawn"
    /\ UNCHANGED <<command_rx, event_rx, sent, external, event, projection,
                   tasks, folded, handled, submitted, session>>

\* handle_event, RepoDiscovered: refresh_repository_status after the
\* registration.
SpawnRefresh ==
    /\ loop = "spawn"
    /\ tasks' = refresh_repository_status(tasks, event.id, "RepoDiscovered",
                                          Len(external))
    /\ event' = NoEvent
    /\ loop' = "select"
    /\ UNCHANGED <<command_rx, event_rx, sent, external, projection, repo_paths,
                   folded, handled, submitted, session>>

\* The task ends: the orchestrator's tasks send their event.
Finish(i, outcome, status, commits) ==
    /\ tasks' = [tasks EXCEPT ![i].state = "finished", ![i].result = outcome]
    /\ CASE tasks[i].kind = "status" ->
                Send(StatusEvent(i, tasks[i].id, outcome, status))
         [] tasks[i].kind = "fetch" ->
                Send(FetchEvent(i, tasks[i].id, tasks[i].remote, outcome))
         [] tasks[i].kind = "log" ->
                Send(LogEvent(i, tasks[i].id, outcome, commits))
         [] OTHER -> UNCHANGED <<event_rx, sent>>

\* get_repo_path: self.repo_paths.read() returns once no writer holds the lock.
ReadLock(i) ==
    /\ i \in 1..Len(tasks)
    /\ tasks[i].state \in {"running", "relookup"}
    /\ loop # "writing"
    /\ tasks' = [tasks EXCEPT ![i].state =
                    IF tasks[i].state = "running" THEN "reading" ELSE "rereading"]
    /\ UNCHANGED <<event_rx, sent>>
    /\ WorkerFrame

\* get_repo_path: paths.get(id).cloned(), and the read guard is dropped. In
\* open_repo a missing path is an Err; in status the second lookup unwraps.
GetRepoPath(i) ==
    /\ i \in 1..Len(tasks)
    /\ HoldsRead(tasks[i])
    /\ IF tasks[i].id \in DOMAIN repo_paths
       THEN /\ tasks' = [tasks EXCEPT ![i].found = TRUE,
                                      ![i].state = IF tasks[i].state = "reading"
                                                   THEN "opening" ELSE "calling"]
            /\ UNCHANGED <<event_rx, sent>>
       ELSE Finish(i, IF tasks[i].state = "reading" THEN "err" ELSE "panic", NoStatus, 0)
    /\ WorkerFrame

\* open_repo: GitRepository::open(&path).
GitOpen(i) ==
    /\ i \in 1..Len(tasks)
    /\ tasks[i].state = "opening"
    /\ \/ /\ tasks' = [tasks EXCEPT ![i].state =
                          IF tasks[i].kind = "status" THEN "relookup" ELSE "calling"]
          /\ UNCHANGED <<event_rx, sent>>
       \/ Finish(i, "err", NoStatus, 0)
    /\ WorkerFrame

\* The rest of status, fetch, log or ahead_behind on the open repository.
BackendCall(i) ==
    /\ i \in 1..Len(tasks)
    /\ tasks[i].state = "calling"
    /\ \/ \E status \in StatusValues : Finish(i, "ok", status, tasks[i].limit)
       \/ Finish(i, "err", NoStatus, 0)
    /\ WorkerFrame

RegistryNext ==
    \/ TakeEvent
    \/ RegisterLock
    \/ RegisterInsert
    \/ SpawnRefresh
    \/ \E i \in DOMAIN tasks : ReadLock(i)
    \/ \E i \in DOMAIN tasks : GetRepoPath(i)
    \/ \E i \in DOMAIN tasks : GitOpen(i)
    \/ \E i \in DOMAIN tasks : BackendCall(i)

RegistrySpec == RegistryInit /\ [][RegistryNext]_vars

\* ------------------------------------------- discovery, entry by entry
\* FsDiscoveryAdapter::find_repos walks a directory tree with WalkDir; here
\* every entry the iterator looks at is a step. The trees explored have the
\* directories of WalkDirs; what varies is the .git entry of each one: none,
\* a directory, or a plain file (a worktree or submodule link).
MaxScans == 2

Fx == "<ff>"
Fy == "<fe>"

Root == <<"base">>
DirX == <<"base", "x">>
DirXA == <<"base", "x", "a">>
DirM == <<"base", "x", ".git", "m">>
DirFA == <<"base", Fx, "a">>
DirFB == <<"base", Fy, "a">>

WalkDirs == {Root, DirX, DirXA, DirM, <<"base", Fx>>, DirFA, <<"base", Fy>>, DirFB}

\* Directories that exist whatever the tree; base/x/.git/m exists when
\* base/x/.git is a directory.
Marked == {Root, DirX, DirXA, DirM, DirFA, DirFB}

Trees ==
    {t \in [WalkDirs -> {"none", "dir", "file"}] :
        /\ \A d \in WalkDirs \ Marked : t[d] = "none"
        /\ \A d \in Marked \ {DirX} : t[d] # "file"
        /\ t[DirX] # "dir" => t[DirM] = "none"}

\* Directories whose listing may be unreadable.
Deniable == {<<"base", Fy>>}

\* Directories a scan starts from.
WalkBases == {Root, DirX}

\* path.join(".git").is_dir()
GitIsDir(tree, path) == path \in WalkDirs /\ tree[path] = "dir"

\* path.join(".git").exists()
GitExists(tree, path) == path \in WalkDirs /\ tree[path] # "none"

\* What read_dir(path) lists: the directories below it and its .git entry.
Children(tree, path) ==
    {d \in WalkDirs :
        /\ Len(d) = Len(path) + 1 /\ IsPrefix(path, d)
        /\ d = DirM => tree[DirX] = "dir"}
      \cup (IF GitExists(tree, path) THEN {Append(path, ".git")} ELSE {})

\* A predicate that lets the walk into .git directories.
filter_entry_into_git(tree, base_path, e) ==
    ~(Len(e) > 0 /\ GitExists(tree, Parent(e)) /\ Parent(e) # base_path)

\* The predicate given to filter_entry.
filter_entry(tree, base_path, e) ==
    /\ FileName(e) # ".git"
    /\ ~(Len(e) > 0 /\ GitExists(tree, Parent(e)) /\ Parent(e) # base_path)

\* Path::display: the segments, lossy, joined by the separator.
RECURSIVE display(_)
display(path) ==
    IF path = <<>> THEN ""
    ELSE display(Parent(path)) \o "/" \o to_string_lossy(path[Len(path)])

\* RepoId(format!("{}#{}", repo.name, repo.path.display()))
RepoIdOf(repo) == repo.name \o "#" \o display(repo.path)

\* An iterator that yields its root twice.
WalkTwice(base) ==
    [kind |-> "scan", id |-> NoId, base |-> base, remote |-> "", prune |-> FALSE,
     range |-> "", limit |-> 0, state |-> "running", found |-> FALSE,
     result |-> "", pending |-> <<>>, origin |-> "caller", born |-> 0,
     stack |-> <<{base}, {base}>>, repositories |-> <<>>]

\* One call of DiscoveryPort::scan: the iterator's stack of directory
\* listings not yet exhausted, and the Vec find_repos is filling.
Walk(base) ==
    [kind |-> "scan", id |-> NoId, base |-> base, remote |-> "", prune |-> FALSE,
     range |-> "", limit |-> 0, state |-> "running", found |-> FALSE,
     result |-> "", pending |-> <<>>, origin |-> "caller", born |-> 0,
     stack |-> <<{base}>>, repositories |-> <<>>]

RECURSIVE Exhausted(_)
\* The iterator pops the listings it has exhausted.
Exhausted(stack) ==
    IF stack # <<>> /\ stack[Len(stack)] = {}
    THEN Exhausted(Parent(stack))
    ELSE stack

WalkInit ==
    /\ loop = "walk"
    /\ command_rx = <<>>
    /\ event_rx = <<>>
    /\ sent = <<>>
    /\ external = <<>>
    /\ event = NoEvent
    /\ projection = EmptyProjection
    /\ repo_paths = <<>>
    /\ tasks = <<>>
    /\ folded = <<>>
    /\ handled = <<>>
    /\ submitted = 0
    /\ \E b \in WalkBases, t \in Trees, d \in SUBSET Deniable :
          session = [base_dir |-> b, commands |-> <<>>, tree |-> t, denied |-> d]

WalkFrame ==
    UNCHANGED <<loop, command_rx, event_rx, sent, external, event, repo_paths,
                handled, submitted, session>>

\* discovery.scan(DiscoverReq { base }) is called; the tree is as before.
StartScan ==
    /\ loop = "walk"
    /\ Len(tasks) < MaxScans
    /\ \A i \in DOMAIN tasks : tasks[i].state = "finished"
    /\ tasks' = Append(tasks, Walk(session.base_dir))
    /\ UNCHANGED <<projection, folded>>
    /\ WalkFrame

\* One turn of the for loop: the iterator takes the next entry of the
\* listing on top, in whatever order read_dir gives; an entry the predicate
\* rejects is skipped and not descended into; an entry that passes is
\* pushed as a repository if it has a .git directory, and its listing is
\* opened. A listing that cannot be read ends find_repos with the error.
WalkStep(i) ==
    /\ tasks[i].kind = "scan"
    /\ tasks[i].state = "running"
    /\ tasks[i].stack # <<>>
    /\ LET t == tasks[i]
           tree == session.tree
           top == t.stack[Len(t.stack)]
       IN  \E e \in top :
             LET rest == [t.stack EXCEPT ![Len(t.stack)] = top \ {e}]
             IN  IF ~filter_entry(tree, t.base, e)
                 THEN tasks' = [tasks EXCEPT ![i].stack = Exhausted(rest)]
                 ELSE IF e \in session.denied
                 THEN tasks' = [tasks EXCEPT ![i].stack = <<>>,
                                             ![i].repositories = <<>>,
                                             ![i].state = "finished",
                                             ![i].result = "err"]
                 ELSE tasks' = [tasks EXCEPT
                         ![i].stack = Exhausted(Append(rest, Children(tree, e))),
                         ![i].repositories =
                             IF GitIsDir(tree, e)
                             THEN Append(@, RepoMeta(e, t.base))
                             ELSE @]
    /\ UNCHANGED <<projection, folded>>
    /\ WalkFrame

\* projection.apply(&event) for each event of a stream, oldest first.
RECURSIVE Replay(_, _)
Replay(p, es) ==
    IF es = <<>> THEN p ELSE Replay(apply(p, Head(es)), Tail(es))

\* What the discovery task sends for the Vec scan returns: a RepoDiscovered
\* per (RepoId, RepoMeta) pair, then ScanCompleted.
ScanResult(i, repositories) ==
    Append([k \in DOMAIN repositories |->
               RepoDiscovered(RepoIdOf(repositories[k]), repositories[k], i)],
           ScanCompleted(i))

\* The iterator is exhausted: find_repos returns Ok(repositories), scan
\* pairs each with its RepoId, and the loop folds the RepoDiscovered events
\* the discovery task sends for them, in this order.
ScanOk(i) ==
    /\ tasks[i].kind = "scan"
    /\ tasks[i].state = "running"
    /\ tasks[i].stack = <<>>
    /\ LET found == ScanResult(i, tasks[i].repositories)
       IN  /\ tasks' = [tasks EXCEPT ![i].state = "finished",
                                     ![i].result = "ok",
                                     ![i].pending = found]
           /\ projection' = Replay(projection, found)
           /\ folded' = folded \o found
    /\ WalkFrame

WalkNext ==
    \/ StartScan
    \/ \E i \in DOMAIN tasks : WalkStep(i)
    \/ \E i \in DOMAIN tasks : ScanOk(i)

WalkSpec == WalkInit /\ [][WalkNext]_vars

\* --------------------------------------------------- Group, used alone
\* Group has public methods and nothing in AppService calls them: a caller
\* holds a group inside ReadProjection.groups and edits it. handled keeps
\* the calls made, oldest first.
MaxGroupOps == 3

GroupPaths == {RepoA, RepoB, GoneId}

\* Group::new
GroupNew(name) == [name |-> name, repos |-> <<>>]

\* Group::contains_repo
contains_repo(g, path) == \E k \in DOMAIN g.repos : g.repos[k] = path

\* A group that pushes whatever it is given.
add_repo_always(g, path) == [g EXCEPT !.repos = Append(@, path)]

\* Group::add_repo
add_repo(g, path) ==
    IF ~contains_repo(g, path) THEN [g EXCEPT !.repos = Append(@, path)] ELSE g

\* Group::remove_repo
remove_repo(g, path) == [g EXCEPT !.repos = SelectSeq(@, LAMBDA p : p # path)]

\* Group::is_empty
is_empty(g) == g.repos = <<>>

\* self.repositories.values().find(|repo| repo.path == *path): the values
\* of a HashMap come in no particular order, so any entry with the path.
FindByPath(p, path) ==
    {p.repositories[id] : id \in {r \in DOMAIN p.repositories :
                                      p.repositories[r].path = path}}

\* ReadProjection::repositories_in_group: every Vec the call can return.
repositories_in_group(p, group_name) ==
    IF group_name \in DOMAIN p.groups
    THEN LET known == SelectSeq(p.groups[group_name].repos,
                                LAMBDA path : FindByPath(p, path) # {})
         IN  {r \in [DOMAIN known -> UNION {FindByPath(p, known[k]) : k \in DOMAIN known}] :
                 \A k \in DOMAIN known : r[k] \in FindByPath(p, known[k])}
    ELSE {<<>>}

\* The repositories map as three histories leave it: ids as scan formats
\* them; other ids for the same repositories; and one repository under two
\* ids, found from two bases.
Discovered ==
    {Insert(Insert(<<>>, RepoIdOf(RepoMeta(RepoA, Work)), RepoMeta(RepoA, Work)),
            RepoIdOf(RepoMeta(RepoB, RepoB)), RepoMeta(RepoB, RepoB)),
     Insert(Insert(<<>>, "1", RepoMeta(RepoA, Work)), "2", RepoMeta(RepoB, RepoB)),
     Insert(Insert(Insert(<<>>, "1", RepoMeta(RepoA, Work)), "2", RepoMeta(RepoB, RepoB)),
            "3", RepoMeta(RepoA, Team))}

GroupCall(type, path) ==
    Cmd(type, <<>>, <<>>, FALSE, path, "g", NoRange, 0)

GroupInit ==
    /\ loop = "group"
    /\ command_rx = <<>>
    /\ event_rx = <<>>
    /\ sent = <<>>
    /\ external = <<>>
    /\ event = NoEvent
    /\ \E d \in Discovered, g \in {GroupNew("g"),
                                   add_repo(add_repo(add_repo(GroupNew("g"), RepoA),
                                                     GoneId), RepoB)} :
          projection = [EmptyProjection EXCEPT !.repositories = d,
                                               !.groups = Insert(<<>>, "g", g)]
    /\ repo_paths = <<>>
    /\ tasks = <<>>
    /\ folded = <<>>
    /\ handled = <<>>
    /\ submitted = 0
    /\ session = Script(Work, <<>>)

GroupFrame ==
    UNCHANGED <<loop, command_rx, event_rx, sent, external, event, repo_paths, tasks,
                folded, submitted, session>>

\* group.add_repo(path)
AddRepo ==
    /\ loop = "group"
    /\ Len(handled) < MaxGroupOps
    /\ \E path \in GroupPaths :
          /\ projection' = [projection EXCEPT !.groups["g"] = add_repo(@, path)]
          /\ handled' = Append(handled, GroupCall("add_repo", path))
    /\ GroupFrame

\* group.remove_repo(&path)
RemoveRepo ==
    /\ loop = "group"
    /\ Len(handled) < MaxGroupOps
    /\ \E path \in GroupPaths :
          /\ projection' = [projection EXCEPT !.groups["g"] = remove_repo(@, path)]
          /\ handled' = Append(handled, GroupCall("remove_repo", path))
    /\ GroupFrame

GroupNext == AddRepo \/ RemoveRepo

GroupSpec == GroupInit /\ [][GroupNext]_vars

\* ------------------------------------------------ GitAdapter::status
\* What status computes from one repository: where HEAD stands, what the
\* branch tracks, and the entries of the index and working tree that differ.
\* A branch name or an upstream name may be bytes that are not UTF-8.
Heads == {"unborn", "branch", "branch_bytes", "detached"}

Upstreams == {"none", "bytes", "dangling", "ok"}

\* graph_ahead_behind: an error, or (ahead, behind).
GraphErr == <<>>

Graphs == {GraphErr, <<0, 0>>, <<2, 1>>}

IndexFlags == {"INDEX_NEW"}

WtFlags == {"WT_MODIFIED", "WT_NEW"}

Flags == IndexFlags \cup WtFlags \cup {"CONFLICTED", "IGNORED"}

GitRepos ==
    {g \in [head : Heads, upstream : Upstreams, graph : Graphs,
            entries : SUBSET Flags, bare : BOOLEAN] :
        g.bare => g.entries = {}}

\* Option
None == <<>>
Some(x) == <<x>>

BranchShort == "main"

\* format!("{:.8}", oid)
HeadOid8 == "c0ffee00"

\* git_repo.head().ok(), then the match on it: (branch_name, is_detached).
branch_and_detached(git) ==
    CASE git.head = "unborn" -> <<None, FALSE>>
      [] git.head = "branch" -> <<Some(BranchShort), FALSE>>
      [] git.head = "branch_bytes" -> <<None, FALSE>>
      [] git.head = "detached" -> <<Some(HeadOid8), TRUE>>

\* Result
Ok(value) == [ok |-> TRUE, value |-> value]
Err(value) == [ok |-> FALSE, value |-> value]

\* Options that list ignored entries too.
statuses_with_ignored(git) == IF git.bare THEN Err({}) ELSE Ok(git.entries)

\* git_repo.statuses(include_untracked(true), include_ignored(false)): a
\* bare repository has no working tree to list.
statuses(git) == IF git.bare THEN Err({}) ELSE Ok(git.entries \ {"IGNORED"})

\* Counts that are kept when the upstream reference cannot be resolved.
upstream_counts_kept(git) ==
    IF git.head = "branch" /\ git.upstream \in {"ok", "dangling"}
    THEN IF git.graph = GraphErr \/ git.upstream = "dangling" THEN <<1, 0>> ELSE git.graph
    ELSE <<0, 0>>

\* (ahead_count, behind_count): every step that fails gives (0, 0).
upstream_counts(git) ==
    IF git.head = "unborn" THEN <<0, 0>>                   \* head is None
    ELSE IF git.head = "branch_bytes" THEN <<0, 0>>        \* reference.name() is None
    ELSE IF git.head = "detached" \/ git.upstream = "none"
         THEN <<0, 0>>                                     \* branch_upstream_name fails
    ELSE IF git.upstream = "bytes" THEN <<0, 0>>           \* upstream_ref.as_str() is None
    ELSE IF git.upstream = "dangling" THEN <<0, 0>>        \* refname_to_id fails
    ELSE IF git.graph = GraphErr THEN <<0, 0>>
    ELSE git.graph

\* GitAdapter::status once the repository is open: Err, or Ok(RepoStatus).
git_status(git, repo_path) ==
    IF ~statuses(git).ok THEN Err(NoStatus)
    ELSE LET entries == statuses(git).value
         IN  Ok([name |-> to_string_lossy(FileName(repo_path)),
                 path |-> repo_path,
                 branch_name |-> branch_and_detached(git)[1],
                 is_dirty |-> entries # {},
                 ahead_count |-> upstream_counts(git)[1],
                 behind_count |-> upstream_counts(git)[2],
                 is_detached |-> branch_and_detached(git)[2],
                 has_staged |-> entries \cap IndexFlags # {},
                 has_unstaged |-> entries \cap WtFlags # {},
                 last_commit_summary |->
                     IF git.head = "unborn" THEN "No commits" ELSE "summary"])

StatusInit ==
    /\ loop = "status"
    /\ command_rx = <<>>
    /\ event_rx = <<>>
    /\ sent = <<>>
    /\ external = <<>>
    /\ event = NoEvent
    /\ projection = EmptyProjection
    /\ repo_paths = register_repo(<<>>, RepoA, RepoA)
    /\ tasks = refresh_repository_status(<<>>, RepoA, "caller", 0)
    /\ folded = <<>>
    /\ handled = <<>>
    /\ submitted = 0
    /\ \E g \in GitRepos :
          session = [base_dir |-> Work, commands |-> <<>>, git |-> g]

\* The status task calls git.status(&id) on the registered, openable
\* repository and sends what refresh_repository_status makes of the result.
StatusCall(i) ==
    /\ loop = "status"
    /\ tasks[i].kind = "status"
    /\ tasks[i].state = "running"
    /\ LET result == git_status(session.git, repo_paths[tasks[i].id])
           outcome == IF result.ok THEN "ok" ELSE "err"
       IN  /\ Send(StatusEvent(i, tasks[i].id, outcome, result.value))
           /\ tasks' = [tasks EXCEPT ![i].state = "finished",
                                     ![i].found = TRUE,
                                     ![i].result = outcome]
    /\ UNCHANGED <<loop, command_rx, external, event, projection, repo_paths, folded,
                   handled, submitted, session>>

StatusNext == \E i \in DOMAIN tasks : StatusCall(i)

StatusSpec == StatusInit /\ [][StatusNext]_vars

\* --------------------------------------------------- GitAdapter::log
\* A range is a string; here a sequence of symbols: "HEAD", the name "m" of
\* a branch, a name "x" that resolves to nothing, and the dot. The history
\* is linear: commit k has commit k - 1 as its parent and k as its time; "m"
\* points at commit 1 and HEAD at the tip.
MaxRange == 4

MaxHistory == 2

Symbols == {"HEAD", "m", "x", "."}

RECURSIVE Strings(_)
Strings(n) ==
    IF n = 0 THEN {<<>>}
    ELSE Strings(n - 1) \cup {Append(s, c) : s \in Strings(n - 1), c \in Symbols}

\* range.contains("..")
ContainsDots(range) ==
    \E k \in 1..(Len(range) - 1) : range[k] = "." /\ range[k + 1] = "."

\* range.split("..").collect(): matches are taken from the left and do not
\* overlap.
RECURSIVE split(_, _)
split(range, part) ==
    IF range = <<>> THEN <<part>>
    ELSE IF Len(range) >= 2 /\ range[1] = "." /\ range[2] = "."
         THEN <<part>> \o split(SubSeq(range, 3, Len(range)), <<>>)
         ELSE split(Tail(range), Append(part, Head(range)))

\* The repositories log is run on: the number of commits, and whether the
\* object database can be read.
LogRepos == [tip : 0..MaxHistory, broken : BOOLEAN]

\* git_repo.revparse_single(spec): Ok(commit) or Err.
revparse_single(git, spec) ==
    IF spec = <<"HEAD">> /\ git.tip > 0 THEN Ok(git.tip)
    ELSE IF spec = <<"m">> /\ git.tip > 0 THEN Ok(1)
    ELSE Err(0)

\* revwalk.push_head(): pushes the tip, or fails on an unborn HEAD.
push_head(git) == IF git.tip > 0 THEN Ok(git.tip) ELSE Err(0)

\* What the revwalk is set up with: Err, or Ok of the commits pushed and
\* hidden.
Pushes(pushed, hidden) == [pushed |-> pushed, hidden |-> hidden]

\* The range part of log: push_head, the two sides of a "..", or one ref.
setup(git, range) ==
    IF range = <<>> \/ range = <<"HEAD">>
    THEN IF push_head(git).ok THEN Ok(Pushes({push_head(git).value}, {}))
         ELSE Err(Pushes({}, {}))
    ELSE IF ContainsDots(range)
    THEN LET parts == split(range, <<>>)
         IN  IF Len(parts) = 2
             THEN LET from == revparse_single(git, parts[1])
                      to == IF parts[2] # <<>> THEN revparse_single(git, parts[2])
                            ELSE push_head(git)
                  IN  IF parts[1] # <<>> /\ ~from.ok THEN Err(Pushes({}, {}))
                      ELSE IF ~to.ok THEN Err(Pushes({}, {}))
                      ELSE Ok(Pushes({to.value} \cup
                                        (IF parts[1] # <<>> THEN {from.value} ELSE {}),
                                     IF parts[1] # <<>> THEN {from.value} ELSE {}))
             ELSE Ok(Pushes({}, {}))
    ELSE LET oid == revparse_single(git, range)
         IN  IF oid.ok THEN Ok(Pushes({oid.value}, {})) ELSE Err(Pushes({}, {}))

\* The commits the revwalk yields, newest first (Sort::TIME): those reachable
\* from a pushed commit and from no hidden one.
RECURSIVE Newest(_, _)
Newest(n, keep) ==
    IF n = 0 THEN <<>>
    ELSE (IF n \in keep THEN <<n>> ELSE <<>>) \o Newest(n - 1, keep)

revwalk(git, pushes) ==
    Newest(git.tip,
           {c \in 1..git.tip : /\ \E p \in pushes.pushed : c <= p
                               /\ \A h \in pushes.hidden : c > h})

\* GitAdapter::log once the repository is open: Err, or Ok(Vec<Commit>).
git_log(git, range, limit) ==
    IF ~setup(git, range).ok THEN Err(<<>>)
    ELSE LET walk == revwalk(git, setup(git, range).value)
         IN  IF walk = <<>> \/ limit = 0 THEN Ok(<<>>)
             ELSE IF git.broken THEN Err(<<>>)
             ELSE Ok(SubSeq(walk, 1, Min(limit, Len(walk))))

LogInit ==
    /\ loop = "log"
    /\ command_rx = <<>>
    /\ event_rx = <<>>
    /\ sent = <<>>
    /\ external = <<>>
    /\ event = NoEvent
    /\ projection = EmptyProjection
    /\ repo_paths = register_repo(<<>>, RepoA, RepoA)
    /\ \E range \in Strings(MaxRange), limit \in 0..MaxHistory :
          tasks = load_repository_log(<<>>, RepoA, range, limit, "ShowLog", 0)
    /\ folded = <<>>
    /\ handled = <<>>
    /\ submitted = 0
    /\ \E g \in LogRepos :
          session = [base_dir |-> Work, commands |-> <<>>, git |-> g]

\* The log task calls git.log(&id, &range, limit) on the registered,
\* openable repository and sends what load_repository_log makes of the
\* result.
LogCall(i) ==
    /\ loop = "log"
    /\ tasks[i].kind = "log"
    /\ tasks[i].state = "running"
    /\ LET result == git_log(session.git, tasks[i].range, tasks[i].limit)
           outcome == IF result.ok THEN "ok" ELSE "err"
       IN  /\ Send(LogEvent(i, tasks[i].id, outcome, result.value))
           /\ tasks' = [tasks EXCEPT ![i].state = "finished",
                                     ![i].found = TRUE,
                                     ![i].result = outcome]
    /\ UNCHANGED <<loop, command_rx, external, event, projection, repo_paths, folded,
                   handled, submitted, session>>

LogNext == \E i \in DOMAIN tasks : LogCall(i)

LogSpec == LogInit /\ [][LogNext]_vars

\* ------------------------------ the legacy scanner (src/scan.rs), alone
\* scan_repositories_background runs on a thread of its own and sends
\* ScanEvents on a crossbeam channel; the receiver takes them or is dropped
\* at any moment. loop is the receiver: "receiving" or "dropped".
ScanError(op) == Ev("ScanError", NoId, NoMeta, NoStatus, FALSE, "scan failed", 0, op)

\* ScanEvent::RepoDiscovered(Repository): the legacy event carries no id.
LegacyDiscovered(repo, op) == Ev("RepoDiscovered", NoId, repo, NoStatus, FALSE, "", 0, op)

\* A scanner that reports completion after a failure too.
legacy_events_completing(i, outcome, repos) ==
    IF outcome = "ok"
    THEN Append([k \in DOMAIN repos |-> LegacyDiscovered(repos[k].meta, i)],
                ScanCompleted(i))
    ELSE <<ScanError(i), ScanCompleted(i)>>

\* What scan_repositories_background sets out to send for a result of
\* find_repos.
legacy_events(i, outcome, repos) ==
    IF outcome = "ok"
    THEN Append([k \in DOMAIN repos |-> LegacyDiscovered(repos[k].meta, i)],
                ScanCompleted(i))
    ELSE <<ScanError(i)>>

LegacyInit ==
    /\ loop = "receiving"
    /\ command_rx = <<>>
    /\ event_rx = <<>>
    /\ sent = <<>>
    /\ external = <<>>
    /\ event = NoEvent
    /\ projection = EmptyProjection
    /\ repo_paths = <<>>
    /\ \E b \in Bases : tasks = start_discovery_for_path(<<>>, b, "caller", 0)
    /\ folded = <<>>
    /\ handled = <<>>
    /\ submitted = 0
    /\ session = Script(Work, <<>>)

LegacyFrame ==
    UNCHANGED <<command_rx, event, projection, repo_paths, folded, handled,
                submitted, session>>

\* match find_repos(base_path)
LegacyFind(i) ==
    /\ tasks[i].kind = "scan"
    /\ tasks[i].state = "running"
    /\ \E outcome \in {"ok", "err"} :
         \E repos \in IF outcome = "ok" THEN ScanResults(tasks[i].base) ELSE {<<>>} :
            tasks' = [tasks EXCEPT ![i].state = "sending",
                                   ![i].result = outcome,
                                   ![i].pending = legacy_events(i, outcome, repos)]
    /\ UNCHANGED <<loop, event_rx, sent, external>>
    /\ LegacyFrame

\* sender.send(event): it succeeds while the receiver lives. A RepoDiscovered
\* that cannot be sent ends the function; the result of sending ScanError or
\* ScanCompleted is ignored, and the function ends after either.
LegacySend(i) ==
    /\ tasks[i].kind = "scan"
    /\ tasks[i].state = "sending"
    /\ IF loop = "receiving"
       THEN /\ Send(Head(tasks[i].pending))
            /\ tasks' = [tasks EXCEPT ![i].pending = Tail(@),
                                      ![i].state = IF Len(tasks[i].pending) = 1
                                                   THEN "finished" ELSE "sending"]
       ELSE /\ UNCHANGED <<event_rx, sent>>
            /\ tasks' = [tasks EXCEPT ![i].state = "finished"]
    /\ UNCHANGED <<loop, external>>
    /\ LegacyFrame

\* receiver.try_recv()
LegacyReceive ==
    /\ loop = "receiving"
    /\ event_rx # <<>>
    /\ external' = Append(external, Head(event_rx))
    /\ event_rx' = Tail(event_rx)
    /\ UNCHANGED <<loop, sent, tasks>>
    /\ LegacyFrame

\* The receiver is dropped.
LegacyDrop ==
    /\ loop = "receiving"
    /\ loop' = "dropped"
    /\ UNCHANGED <<event_rx, sent, external, tasks>>
    /\ LegacyFrame

LegacyNext ==
    \/ \E i \in DOMAIN tasks : LegacyFind(i)
    \/ \E i \in DOMAIN tasks : LegacySend(i)
    \/ LegacyReceive
    \/ LegacyDrop

LegacySpec == LegacyInit /\ [][LegacyNext]_vars

\* ------------------------------------------------------------ legacy App
\* The single-threaded front end of src/src/app.rs. The App is kept in
\* projection, the methods called on it so far in handled, oldest first.
MaxRepos == 3
MaxScrolls == 5

\* scan::Repository values as a scan of base reports them.
Stored ==
    <<RepoMeta(RepoA, <<"base">>), RepoMeta(RepoB, <<"base">>),
      RepoMeta(GoneId, <<"base">>), RepoMeta(<<"base", "work", "c">>, <<"base">>)>>

\* Every group name of the explored configurations and every auto_group of
\* Stored, in the order of String's Ord (byte order).
GroupOrder == <<"Auto: work", "Dev", "New", "Prod", "Ungrouped">>

\* Config.groups: a manual group name gives GroupConfig.repos.
NoGroups == <<>>

\* App::new(config), then n repositories pushed to App.repositories.
AppWith(n, groups) ==
    [repositories |-> SubSeq(Stored, 1, n),
     groups |-> groups,
     mode |-> "Normal",
     scroll_offset |-> 0,
     current_selection |-> 0,
     selected_repositories |-> {},
     current_group_index |-> 0,
     input_mode |-> "None",
     input_text |-> "",
     pending_g_key |-> FALSE,
     display_to_storage_mapping |-> <<>>]

\* A scroll_down that always advances.
scroll_down_unguarded(app) == [app EXCEPT !.scroll_offset = @ + 1]

\* App::scroll_down
scroll_down(app) ==
    IF app.scroll_offset + 1 < Len(app.repositories)
    THEN [app EXCEPT !.scroll_offset = @ + 1]
    ELSE app

\* App::scroll_up
scroll_up(app) ==
    IF app.scroll_offset > 0
    THEN [app EXCEPT !.scroll_offset = @ - 1]
    ELSE app

AppFrame ==
    UNCHANGED <<loop, command_rx, event_rx, sent, external, event, repo_paths,
                tasks, folded, submitted, session>>

ScrollInit ==
    /\ loop = "legacy"
    /\ command_rx = <<>>
    /\ event_rx = <<>>
    /\ sent = <<>>
    /\ external = <<>>
    /\ event = NoEvent
    /\ \E n \in 0..MaxRepos : projection = AppWith(n, NoGroups)
    /\ repo_paths = <<>>
    /\ tasks = <<>>
    /\ folded = <<>>
    /\ handled = <<>>
    /\ submitted = 0
    /\ session = Script(Work, <<>>)

ScrollDown ==
    /\ Len(handled) < MaxScrolls
    /\ projection' = scroll_down(projection)
    /\ handled' = Append(handled, "scroll_down")
    /\ AppFrame

ScrollUp ==
    /\ Len(handled) < MaxScrolls
    /\ projection' = scroll_up(projection)
    /\ handled' = Append(handled, "scroll_up")
    /\ AppFrame

ScrollNext == ScrollDown \/ ScrollUp

ScrollSpec == ScrollInit /\ [][ScrollNext]_vars

\* ------------------------------------------------------------ legacy move
\* In MoveSpec handled holds the last method called and what it returned.

\* The manual groups of the explored configurations: one with an empty
\* group, one with a path in two groups, one whose group has the name of an
\* auto group.
Configs ==
    {NoGroups,
     ("Prod" :> <<RepoA>>) @@ ("Dev" :> <<>>),
     ("Prod" :> <<RepoA, RepoB>>) @@ ("Dev" :> <<RepoB>>),
     ("Ungrouped" :> <<>>)}

\* Display positions: a line per group header and per repository, and one
\* position past the longest list.
DisplayPositions == 0..(MaxRepos + Len(GroupOrder))

Elems(seq) == {seq[i] : i \in DOMAIN seq}

\* scan::group_repositories
group_repositories(repositories) ==
    [g \in {r.auto_group : r \in Elems(repositories)} |->
        LET InGroup(r) == r.auto_group = g IN SelectSeq(repositories, InGroup)]

\* App::get_repositories_in_group
get_repositories_in_group(app, group_name) ==
    IF group_name \in DOMAIN app.groups
    THEN LET Assigned(repo) == repo.path \in Elems(app.groups[group_name])
         IN  SelectSeq(app.repositories, Assigned)
    ELSE LET grouped == group_repositories(app.repositories)
             manually_assigned_paths ==
                 UNION {Elems(app.groups[g]) : g \in DOMAIN app.groups}
             Free(repo) == repo.path \notin manually_assigned_paths
         IN  IF group_name \in DOMAIN grouped
             THEN SelectSeq(grouped[group_name], Free)
             ELSE <<>>

\* all_groups as build_display_mapping and get_group_at_display_position
\* build it: the manual groups in sorted order (empty ones in Organize mode
\* only), then the auto groups no manual group shadows, in sorted order.
all_groups(app) ==
    LET Manual(g) ==
            /\ g \in DOMAIN app.groups
            /\ \/ get_repositories_in_group(app, g) # <<>>
               \/ app.mode = "Organize"
        Auto(g) ==
            /\ g \in DOMAIN group_repositories(app.repositories)
            /\ g \notin DOMAIN app.groups
            /\ get_repositories_in_group(app, g) # <<>>
        names == SelectSeq(GroupOrder, Manual) \o SelectSeq(GroupOrder, Auto)
    IN  [k \in 1..Len(names) |->
            [name |-> names[k], repos |-> get_repositories_in_group(app, names[k])]]

\* current_position after the first k groups: a header line and a line per
\* repository each.
RECURSIVE LinesThrough(_, _)
LinesThrough(groups, k) ==
    IF k = 0 THEN 0
    ELSE LinesThrough(groups, k - 1) + 1 + Len(groups[k].repos)

\* App::get_group_at_display_position
get_group_at_display_position(app, display_position) ==
    LET all == all_groups(app)
        hit == {k \in 1..Len(all) :
                   /\ LinesThrough(all, k - 1) <= display_position
                   /\ display_position < LinesThrough(all, k)}
    IN  IF hit = {} THEN None ELSE Some(all[CHOOSE k \in hit : TRUE].name)

\* The paths of the selected storage indices that repositories.get finds.
SelectedPaths(app) ==
    {app.repositories[i + 1].path :
        i \in {j \in app.selected_repositories : j < Len(app.repositories)}}

\* A retain that keeps every path.
retain_all(repos, paths) == repos

\* group_config.repos.retain(..): the paths of no selected repository.
retain_unselected(repos, paths) ==
    LET Kept(repo_path) == repo_path \notin paths IN SelectSeq(repos, Kept)

\* The push loop over the selection, in the order the HashSet iterates.
RECURSIVE PushSelected(_, _, _)
PushSelected(repos, app, order) ==
    IF order = <<>> THEN repos
    ELSE LET repo_index == Head(order)
             pushed ==
                 IF repo_index < Len(app.repositories)
                    /\ app.repositories[repo_index + 1].path \notin Elems(repos)
                 THEN Append(repos, app.repositories[repo_index + 1].path)
                 ELSE repos
         IN  PushSelected(pushed, app, Tail(order))

\* App::move_selected_repositories; order is the iteration order of
\* selected_repositories. A failing save_config is logged only.
move_selected_repositories(app, order) ==
    LET target == get_group_at_display_position(app, app.current_selection)
        refused == [app |-> app, ret |-> FALSE]
    IN  IF app.selected_repositories = {} THEN refused
        ELSE IF target = None THEN refused
        ELSE LET target_group == target[1] IN
             IF /\ target_group \in DOMAIN group_repositories(app.repositories)
                /\ target_group \notin DOMAIN app.groups
             THEN refused
             ELSE LET entry == IF target_group \in DOMAIN app.groups
                               THEN app.groups[target_group] ELSE <<>>
                      groups == [g \in DOMAIN app.groups \cup {target_group} |->
                                    IF g = target_group
                                    THEN PushSelected(entry, app, order)
                                    ELSE retain_unselected(app.groups[g],
                                                           SelectedPaths(app))]
                  IN  [app |-> [app EXCEPT !.groups = groups,
                                           !.display_to_storage_mapping = <<>>,
                                           !.selected_repositories = {}],
                       ret |-> TRUE]

\* App::toggle_repository_selection
toggle_repository_selection(app, index) ==
    IF index < Len(app.repositories)
    THEN [app |-> [app EXCEPT !.selected_repositories =
                                  IF index \in @ THEN @ \ {index} ELSE @ \cup {index}],
          ret |-> TRUE]
    ELSE [app |-> app, ret |-> FALSE]

\* App::toggle_mode
toggle_mode(app) ==
    [app EXCEPT !.mode = IF @ = "Normal" THEN "Organize" ELSE "Normal"]

Called(call, ret) == <<[call |-> call, ret |-> ret]>>

\* The cursor and the mode are public fields; the explored Apps start with
\* the cursor on any display position.
MoveInit ==
    /\ loop = "legacy"
    /\ command_rx = <<>>
    /\ event_rx = <<>>
    /\ sent = <<>>
    /\ external = <<>>
    /\ event = NoEvent
    /\ \E n \in 0..MaxRepos, groups \in Configs, position \in DisplayPositions :
          projection = [AppWith(n, groups) EXCEPT !.current_selection = position]
    /\ repo_paths = <<>>
    /\ tasks = <<>>
    /\ folded = <<>>
    /\ handled = <<>>
    /\ submitted = 0
    /\ session = Script(Work, <<>>)

ToggleSelection ==
    \E index \in 0..MaxRepos :
        LET result == toggle_repository_selection(projection, index)
        IN  /\ projection' = result.app
            /\ handled' = Called("toggle_repository_selection", result.ret)
            /\ AppFrame

ToggleMode ==
    /\ projection' = toggle_mode(projection)
    /\ handled' = Called("toggle_mode", TRUE)
    /\ AppFrame

MoveSelected ==
    \E order \in Perms(projection.selected_repositories) :
        LET result == move_selected_repositories(projection, order)
        IN  /\ projection' = result.app
            /\ handled' = Called("move_selected_repositories", result.ret)
            /\ AppFrame

MoveNext == ToggleSelection \/ ToggleMode \/ MoveSelected

MoveSpec == MoveInit /\ [][MoveNext]_vars

\* ------------------------------------------------------- legacy organize mode
\* Key presses in Organize mode after the scan has completed. handled holds
\* the last key and what its handler returned, submitted the number of keys
\* other than navigation keys handled so far.
MaxEdits == 4

\* KeyCode values: the keys handle_organize_key has an arm for, and one key
\* and one character for the catch-all arm.
CharKeys == {"j", "k", " ", "n", "m", "d", "g", "G", "x"}
Keys == CharKeys \cup {"Down", "Up", "PageDown", "PageUp", "Home", "End",
                       "Enter", "Esc", "Tab"}
NavigationKeys == {"Down", "j", "Up", "k", "g", "G", "PageDown", "PageUp",
                   "Home", "End"}

\* What is typed at the group name prompt.
Texts == {"New", " "}

\* str::trim
trim(text) == IF text = " " THEN "" ELSE text

\* The storage index of the repository at path; usize::MAX is past every index.
position(repositories, path) ==
    LET found == {i \in DOMAIN repositories : repositories[i].path = path}
    IN  IF found = {} THEN Len(repositories) + Len(GroupOrder)
        ELSE (CHOOSE i \in found : \A j \in found : i <= j) - 1

RECURSIVE MappingOf(_, _)
MappingOf(groups, repositories) ==
    IF groups = <<>> THEN <<>>
    ELSE [k \in DOMAIN Head(groups).repos |->
             position(repositories, Head(groups).repos[k].path)]
         \o MappingOf(Tail(groups), repositories)

\* App::build_display_mapping
build_display_mapping(app) ==
    [app EXCEPT !.display_to_storage_mapping =
                    MappingOf(all_groups(app), app.repositories)]

\* App::display_repository_count: the App it leaves and the count.
display_repository_count(app) ==
    LET built == IF app.display_to_storage_mapping = <<>>
                 THEN build_display_mapping(app) ELSE app
    IN  [app |-> built, count |-> Len(built.display_to_storage_mapping)]

\* App::display_to_storage_index: the App it leaves and the index.
display_to_storage_index(app, display_index) ==
    LET built == IF app.display_to_storage_mapping = <<>>
                 THEN build_display_mapping(app) ELSE app
    IN  [app |-> built,
         index |-> IF display_index < Len(built.display_to_storage_mapping)
                   THEN built.display_to_storage_mapping[display_index + 1]
                   ELSE display_index]

RECURSIVE SumLines(_, _)
SumLines(grouped, names) ==
    IF names = {} THEN 0
    ELSE LET g == CHOOSE x \in names : TRUE
         IN  1 + Len(grouped[g]) + 1 + SumLines(grouped, names \ {g})

\* App::calculate_total_content_lines
calculate_total_content_lines(app) ==
    IF app.repositories = <<>> THEN 1
    ELSE LET grouped == group_repositories(app.repositories)
         IN  SumLines(grouped, DOMAIN grouped)

RECURSIVE SelectionLine(_, _, _, _, _)
SelectionLine(grouped, order, line_index, repo_index, selection) ==
    IF order = <<>> THEN line_index
    ELSE LET len == Len(grouped[Head(order)])
         IN  IF selection >= repo_index /\ selection < repo_index + len
             THEN line_index + 1 + (selection - repo_index)
             ELSE SelectionLine(grouped, Tail(order), line_index + 1 + len + 1,
                                repo_index + len, selection)

\* App::calculate_selection_line_index; auto_order is the order in which the
\* HashMap of auto groups iterates.
calculate_selection_line_index(app, auto_order) ==
    IF app.repositories = <<>> THEN 0
    ELSE SelectionLine(group_repositories(app.repositories), auto_order, 0, 0,
                       app.current_selection)

estimated_visible_height == 10

\* App::ensure_selection_visible
ensure_selection_visible(app, auto_order) ==
    IF calculate_total_content_lines(app) > estimated_visible_height
    THEN LET selection_line == calculate_selection_line_index(app, auto_order)
             below == IF selection_line >= app.scroll_offset + estimated_visible_height
                      THEN IF selection_line >= estimated_visible_height - 1
                           THEN selection_line - (estimated_visible_height - 1)
                           ELSE 0
                      ELSE app.scroll_offset
         IN  [app EXCEPT !.scroll_offset =
                             IF selection_line < below THEN selection_line ELSE below]
    ELSE app

\* App::delete_group_at_cursor; manual_order is the order in which
\* config.groups iterates.
delete_group_at_cursor(app, manual_order) ==
    LET Empty(g) == get_repositories_in_group(app, g) = <<>>
        groups_to_delete == SelectSeq(manual_order, Empty)
    IN  IF groups_to_delete = <<>>
        THEN [app |-> app, ret |-> FALSE]
        ELSE [app |-> [app EXCEPT !.groups =
                          [g \in DOMAIN app.groups \ {groups_to_delete[1]} |->
                              app.groups[g]]],
              ret |-> TRUE]

\* The paths of the selection in iteration order; nothing is left out for
\* being there already.
RECURSIVE PathsInOrder(_, _)
PathsInOrder(app, order) ==
    IF order = <<>> THEN <<>>
    ELSE (IF Head(order) < Len(app.repositories)
          THEN <<app.repositories[Head(order) + 1].path>> ELSE <<>>)
         \o PathsInOrder(app, Tail(order))

\* App::navigate_to_group_header: the cursor is set to the storage index of
\* the first repository of the group, if it has one.
navigate_to_group_header(app, group_name) ==
    LET repos_in_group == get_repositories_in_group(app, group_name)
    IN  IF repos_in_group = <<>> THEN app
        ELSE [app EXCEPT !.current_selection =
                             position(app.repositories, repos_in_group[1].path)]

\* App::confirm_group_name_input
confirm_group_name_input(app, selected_order) ==
    IF trim(app.input_text) = ""
    THEN [app |-> app, ret |-> FALSE]
    ELSE LET group_name == trim(app.input_text)
             groups == [g \in DOMAIN app.groups \cup {group_name} |->
                           IF g = group_name
                           THEN PathsInOrder(app, selected_order)
                           ELSE retain_unselected(app.groups[g], SelectedPaths(app))]
             created == [app EXCEPT !.groups = groups,
                                    !.selected_repositories = {},
                                    !.display_to_storage_mapping = <<>>,
                                    !.input_mode = "None",
                                    !.input_text = ""]
         IN  [app |-> navigate_to_group_header(created, group_name), ret |-> TRUE]

\* App::handle_text_input
handle_text_input(app, text) ==
    IF app.input_mode # "None"
    THEN [app EXCEPT !.input_text = @ \o text]
    ELSE app

\* The iteration orders of the hash collections the arm of key can depend on.
HashOrders(app, key) ==
    [auto : IF calculate_total_content_lines(app) > estimated_visible_height
            THEN Perms(DOMAIN group_repositories(app.repositories)) ELSE {<<>>},
     manual : IF key = "d" THEN Perms(DOMAIN app.groups) ELSE {<<>>},
     selected : IF key \in {"m", "Enter"}
                THEN Perms(app.selected_repositories) ELSE {<<>>}]

min(a, b) == IF a <= b THEN a ELSE b

\* What every arm but those of 'g', Enter and Esc starts with.
cancel_pending_in_arm(app, key) ==
    IF app.mode = "Organize" /\ key \notin {"g", "Enter", "Esc"}
    THEN [app EXCEPT !.pending_g_key = FALSE]
    ELSE app

\* App::handle_organize_key
handle_organize_key(app0, key, hash) ==
    LET app == cancel_pending_in_arm(app0, key)
        moved(next, changed) ==
            [app |-> ensure_selection_visible(next, hash.auto), ret |-> changed]
    IN  IF app.mode # "Organize" THEN [app |-> app, ret |-> FALSE]
        ELSE CASE key \in {"Down", "j"} ->
                    LET counted == display_repository_count(app)
                    IN  IF app.current_selection + 1 < counted.count
                        THEN moved([counted.app EXCEPT !.current_selection = @ + 1], TRUE)
                        ELSE [app |-> counted.app, ret |-> FALSE]
               [] key \in {"Up", "k"} ->
                    IF app.current_selection > 0
                    THEN moved([app EXCEPT !.current_selection = @ - 1], TRUE)
                    ELSE [app |-> app, ret |-> FALSE]
               [] key = " " ->
                    LET found == display_to_storage_index(app, app.current_selection)
                    IN  [app |-> toggle_repository_selection(found.app, found.index).app,
                         ret |-> TRUE]
               [] key = "n" ->
                    IF app.selected_repositories # {}
                    THEN [app |-> [app EXCEPT !.input_mode = "GroupName",
                                              !.input_text = ""],
                          ret |-> TRUE]
                    ELSE [app |-> app, ret |-> FALSE]
               [] key = "m" -> move_selected_repositories(app, hash.selected)
               [] key = "d" -> delete_group_at_cursor(app, hash.manual)
               [] key = "g" ->
                    IF app.pending_g_key
                    THEN moved([app EXCEPT !.pending_g_key = FALSE,
                                           !.current_selection = 0], TRUE)
                    ELSE [app |-> [app EXCEPT !.pending_g_key = TRUE], ret |-> FALSE]
               [] key \in {"G", "End"} ->
                    LET counted == display_repository_count(app)
                    IN  IF counted.count > 0
                        THEN moved([counted.app EXCEPT !.current_selection =
                                                           counted.count - 1],
                                   key = "G" \/ counted.count - 1 # app.current_selection)
                        ELSE [app |-> counted.app, ret |-> FALSE]
               [] key = "PageDown" ->
                    LET counted == display_repository_count(app)
                        target == min(app.current_selection + 10, counted.count - 1)
                    IN  IF counted.count > 0
                        THEN moved([counted.app EXCEPT !.current_selection = target],
                                   target # app.current_selection)
                        ELSE [app |-> counted.app, ret |-> FALSE]
               [] key = "PageUp" ->
                    LET target == IF app.current_selection >= 10
                                  THEN app.current_selection - 10 ELSE 0
                    IN  moved([app EXCEPT !.current_selection = target],
                              target # app.current_selection)
               [] key = "Home" ->
                    moved([app EXCEPT !.current_selection = 0],
                          app.current_selection # 0)
               [] key = "Enter" ->
                    IF app.input_mode = "GroupName"
                    THEN confirm_group_name_input(app, hash.selected)
                    ELSE [app |-> app, ret |-> FALSE]
               [] key = "Esc" ->
                    IF app.input_mode # "None"
                    THEN [app |-> [app EXCEPT !.input_mode = "None",
                                              !.input_text = ""],
                          ret |-> TRUE]
                    ELSE [app |-> app, ret |-> FALSE]
               [] OTHER -> [app |-> app, ret |-> FALSE]

KeyFrame ==
    UNCHANGED <<loop, command_rx, event_rx, sent, external, event, repo_paths,
                tasks, folded, session>>

\* App::new, the scanned repositories pushed, set_mode(Organize).
KeyInit ==
    /\ loop = "legacy"
    /\ command_rx = <<>>
    /\ event_rx = <<>>
    /\ sent = <<>>
    /\ external = <<>>
    /\ event = NoEvent
    /\ \E n \in 0..MaxRepos, groups \in Configs :
          projection = [AppWith(n, groups) EXCEPT !.mode = "Organize"]
    /\ repo_paths = <<>>
    /\ tasks = <<>>
    /\ folded = <<>>
    /\ handled = <<>>
    /\ submitted = 0
    /\ session = Script(Work, <<>>)

\* A key press the main loop hands to handle_organize_key: every key outside
\* the name prompt, the keys that are no characters inside it.
PressKey ==
    \E key \in Keys :
        /\ projection.input_mode # "None" => key \notin CharKeys
        /\ key \notin NavigationKeys => submitted < MaxEdits
        /\ \E hash \in HashOrders(projection, key) :
              LET result == handle_organize_key(projection, key, hash)
              IN  /\ projection' = result.app
                  /\ handled' = Called(key, result.ret)
        /\ submitted' = IF key \in NavigationKeys THEN submitted ELSE submitted + 1
        /\ KeyFrame

\* Characters typed at the name prompt go to handle_text_input; a name is
\* typed in one piece.
TypeText ==
    /\ projection.input_mode # "None"
    /\ projection.input_text = ""
    /\ submitted < MaxEdits
    /\ \E text \in Texts :
          /\ projection' = handle_text_input(projection, text)
          /\ handled' = Called(text, TRUE)
    /\ submitted' = submitted + 1
    /\ KeyFrame

KeyNext == PressKey \/ TypeText

KeySpec == KeyInit /\ [][KeyNext]_vars

\* ------------------------------------------------------------ the front end
\* GitaGripApp::run: the service task beside run_main_loop. The front end
\* is kept in session: the TuiModel, the number of forwarded events it has
\* received, where run_main_loop stands ("try_recv", "poll", "check",
\* "returned"), and in commands the TuiMessage::Command values its key
\* presses produce, in order. loop is "command_closed" while the service is
\* in the None arm of the command branch.

\* TuiModel::new (default), without the fields no event touches.
TuiModelNew ==
    [projection |-> EmptyProjection, selected_repo |-> None, messages |-> <<>>,
     errors |-> <<>>, refreshed |-> FALSE, should_quit |-> FALSE]

TuiSession(base_dir, commands) ==
    [base_dir |-> base_dir, commands |-> commands, tui_model |-> TuiModelNew,
     received |-> 0, main_loop |-> "try_recv"]

TuiSessions ==
    {TuiSession(Team, <<Quit>>),
     TuiSession(Work, <<OpenRepo(GoneId), Quit>>),
     TuiSession(Team, <<RefreshStatus(<<RepoA>>)>>),
     TuiSession(RepoB, <<FetchAll(FALSE), Quit>>),
     TuiSession(Team, <<ShowLog(RepoA, NoRange, LogLimit), Quit>>)}

\* A TuiModel whose projection forgets the statuses when a scan completes.
apply_event_resetting(model, e) ==
    [model EXCEPT !.projection = applyResetting(model.projection, e),
                  !.should_quit = @ \/ e.type = "QuitRequested"]

\* TuiModel::apply_event
apply_event(model, e) ==
    LET applied == [model EXCEPT !.projection = apply(model.projection, e)]
    IN  CASE e.type = "RepoDiscovered" ->
                [applied EXCEPT !.selected_repo = IF @ = None THEN Some(e.id) ELSE @]
          [] e.type = "ScanCompleted" ->
                [applied EXCEPT !.messages = Append(@, <<"Repository scan completed">>)]
          [] e.type = "StatusUpdated" ->
                [applied EXCEPT !.refreshed = TRUE]
          [] e.type = "FetchProgress" ->
                [applied EXCEPT !.messages = Append(@, <<"Fetching", e.id>>)]
          [] e.type = "RepoFetched" ->
                IF e.ok
                THEN [applied EXCEPT !.messages = Append(@, <<"Successfully fetched", e.id>>)]
                ELSE [applied EXCEPT !.errors = Append(@, <<"Failed to fetch", e.id, e.msg>>)]
          [] e.type = "LogLoaded" ->
                [applied EXCEPT !.messages = Append(@, <<"Loaded commits", e.commits>>)]
          [] e.type = "Error" ->
                [applied EXCEPT !.errors = Append(@, <<"Error", e.id, e.msg>>)]
          [] e.type = "QuitRequested" ->
                [applied EXCEPT !.should_quit = TRUE]

TuiInit == InitWith(TuiSessions)

ServiceFrame ==
    UNCHANGED <<loop, command_rx, event_rx, sent, external, event, projection,
                repo_paths, tasks, folded, handled>>

\* while let Ok(event) = event_rx.try_recv() { tui_model.apply_event(&event) }
TuiReceive ==
    /\ session.main_loop = "try_recv"
    /\ session.received < Len(external)
    /\ session' = [session EXCEPT
                      !.tui_model = apply_event(@, external[session.received + 1]),
                      !.received = @ + 1]
    /\ UNCHANGED submitted
    /\ ServiceFrame

\* try_recv finds the channel empty.
TuiEmpty ==
    /\ session.main_loop = "try_recv"
    /\ session.received = Len(external)
    /\ session' = [session EXCEPT !.main_loop = "poll"]
    /\ UNCHANGED submitted
    /\ ServiceFrame

\* A key press whose TuiMessage is a Command: Quit sets should_quit and is
\* not sent, any other command is sent on command_tx.
TuiKey ==
    /\ session.main_loop = "poll"
    /\ submitted < Len(session.commands)
    /\ LET cmd == session.commands[submitted + 1]
       IN  IF cmd.type = "Quit"
           THEN /\ session' = [session EXCEPT !.tui_model.should_quit = TRUE,
                                              !.main_loop = "check"]
                /\ UNCHANGED command_rx
           ELSE /\ session' = [session EXCEPT !.main_loop = "check"]
                /\ command_rx' = Append(command_rx, cmd)
    /\ submitted' = submitted + 1
    /\ UNCHANGED <<loop, event_rx, sent, external, event, projection,
                   repo_paths, tasks, folded, handled>>

\* No key within the poll timeout, or a key whose TuiMessage is None.
TuiIdle ==
    /\ session.main_loop = "poll"
    /\ session' = [session EXCEPT !.main_loop = "check"]
    /\ UNCHANGED submitted
    /\ ServiceFrame

\* if tui_model.should_quit { break }: run_main_loop returns and drops
\* command_tx and the receiver of the forwarded events.
TuiCheck ==
    /\ session.main_loop = "check"
    /\ session' = [session EXCEPT !.main_loop = IF session.tui_model.should_quit
                                                THEN "returned" ELSE "try_recv"]
    /\ UNCHANGED submitted
    /\ ServiceFrame

\* run_event_loop, command branch: command_rx.recv() is None once every
\* sender is dropped and the queue is empty.
CommandClosed ==
    /\ loop = "select"
    /\ command_rx = <<>>
    /\ session.main_loop = "returned"
    /\ loop' = "command_closed"
    /\ UNCHANGED <<command_rx, event_rx, sent, external, event, projection,
                   repo_paths, tasks, folded, handled, submitted, session>>

\* None => { info!("Command channel closed"); }: the select is entered again.
ResumeSelect ==
    /\ loop = "command_closed"
    /\ loop' = "select"
    /\ UNCHANGED <<command_rx, event_rx, sent, external, event, projection,
                   repo_paths, tasks, folded, handled, submitted, session>>

TuiNext ==
    \/ Start
    \/ TuiReceive
    \/ TuiEmpty
    \/ TuiKey
    \/ TuiIdle
    \/ TuiCheck
    \/ HandleCommand
    \/ CommandClosed
    \/ ResumeSelect
    \/ ForwardEvent
    \/ FoldEvent
    \/ \E i \in DOMAIN tasks : ScanReturns(i)
    \/ \E i \in DOMAIN tasks : ScanSend(i)
    \/ \E i \in DOMAIN tasks : Lookup(i)
    \/ \E i \in DOMAIN tasks : CompleteStatus(i)
    \/ \E i \in DOMAIN tasks : CompleteFetch(i)
    \/ \E i \in DOMAIN tasks : CompleteLog(i)

TuiSpec == TuiInit /\ [][TuiNext]_vars

\* The runtime polls the service task whenever a branch of its select is
\* ready and picks among the ready branches at random, so none is passed over
\* for ever; every spawned task and blocking call runs and returns. Nothing
\* is assumed of the user.
FairTuiSpec ==
    /\ TuiInit /\ [][TuiNext]_vars
    /\ WF_vars(Start) /\ WF_vars(FoldEvent) /\ WF_vars(ResumeSelect)
    /\ SF_vars(HandleCommand) /\ SF_vars(ForwardEvent) /\ SF_vars(CommandClosed)
    /\ WF_vars(WorkerStep)
    /\ WF_vars(TuiReceive \/ TuiEmpty \/ TuiIdle \/ TuiCheck)

\* ----------------------------------------------------------- histories
\* The events task i has sent so far, oldest first.
EventsOf(i) == SelectSeq(sent, LAMBDA e : e.op = i)

\* The positions of events of one type about one repository in a stream.
Positions(stream, type, id) ==
    {k \in DOMAIN stream : stream[k].type = type /\ stream[k].id = id}

Handled(type) == \E k \in DOMAIN handled : handled[k].type = type

Forwarded(type) == \E k \in DOMAIN external : external[k].type = type

\* --------------------------------------------------------------- claims

\* C1: every event the loop receives is forwarded to the subscribers before it
\* is folded: the external stream followed by the events not yet received is
\* the stream sent on event_tx, the folded events are a prefix of the external
\* stream, and the two differ by at most one event.
C1_ForwardThenFold ==
    /\ external \o event_rx = sent
    /\ IsPrefix(folded, external)
    /\ Len(external) - Len(folded) <= 1

\* C2: every key of projection.statuses is a key of projection.repositories.
C2_StatusKeysKnown ==
    DOMAIN projection.statuses \subseteq DOMAIN projection.repositories

\* C2 witness: a RefreshStatus for the never discovered id has run to its end
\* and been folded, and a discovered repository has a status.
C2_Witness ==
    /\ \E i \in DOMAIN tasks :
          /\ tasks[i].id = GoneId
          /\ tasks[i].origin = "RefreshStatus"
          /\ \E k \in DOMAIN folded : folded[k].op = i
    /\ RepoA \in DOMAIN projection.statuses

\* The status tasks the loop started on its own for repository r ended with an
\* event of one of these types, and the event reached the subscribers.
AutoStatusArrived(r, types) ==
    \E k \in DOMAIN external :
       /\ external[k].id = r
       /\ external[k].type \in types
       /\ external[k].op \in DOMAIN tasks
       /\ tasks[external[k].op].origin = "RepoDiscovered"

\* Folding a RepoDiscovered spawns the status task for its id in the same step.
ChainsRefresh ==
    (loop = "handle_event" /\ loop' # "handle_event" /\ event.type = "RepoDiscovered")
        => /\ Len(tasks') = Len(tasks) + 1
           /\ tasks'[Len(tasks')].kind = "status"
           /\ tasks'[Len(tasks')].id = event.id
           /\ tasks'[Len(tasks')].state = "running"
           /\ event.id \in DOMAIN projection'.repositories
           /\ event.id \in DOMAIN repo_paths'

\* C3 as claimed: for every discovered repository a StatusUpdated event
\* eventually arrives without a RefreshStatus command.
C3_StatusUpdatedArrives ==
    \A r \in RepoDirs :
       (r \in DOMAIN projection.repositories) ~> AutoStatusArrived(r, {"StatusUpdated"})

\* C3, amended: folding a RepoDiscovered spawns a status task for its id in
\* the same step, and for every discovered repository a StatusUpdated event or,
\* if the status call fails, an Error event scoped to it eventually arrives
\* without a RefreshStatus command.
C3_AutoChaining ==
    /\ [][ChainsRefresh]_vars
    /\ \A r \in RepoDirs :
          (r \in DOMAIN projection.repositories)
              ~> AutoStatusArrived(r, {"StatusUpdated", "Error"})

\* C3 witness: a session without any RefreshStatus command in which the status
\* of a discovered repository has arrived.
C3_Witness ==
    /\ \A k \in DOMAIN session.commands : session.commands[k].type # "RefreshStatus"
    /\ RepoA \in DOMAIN projection.repositories
    /\ AutoStatusArrived(RepoA, {"StatusUpdated"})

\* C4: once the QuitRequested event of a Quit command has been handled, the
\* loop has left run_event_loop.
C4_QuitExits ==
    (Handled("Quit") /\ Forwarded("QuitRequested") /\ loop # "handle_event")
        => loop = "exited"

\* C5: as long as no Quit command and no QuitRequested event has been handled,
\* the loop is running, whatever Error events it has handled, and it takes
\* the next command as soon as it selects.
C5_LoopKeepsRunning ==
    (~Handled("Quit") /\ ~Forwarded("QuitRequested"))
        => /\ loop # "exited"
           /\ (loop = "select" /\ command_rx # <<>>) => ENABLED HandleCommand

\* C5 witness: no Quit so far, the Error of a failed call and the Error of a
\* panicked worker have both been handled, and a command was handled after them.
C5_Witness ==
    /\ ~Handled("Quit")
    /\ loop = "select"
    /\ \E k, l \in DOMAIN folded :
          /\ folded[k].type = "Error" /\ folded[k].msg = "Status update failed"
          /\ folded[l].type = "Error" /\ folded[l].msg = "Status task failed"
          /\ \E i \in DOMAIN tasks :
                /\ tasks[i].origin = "RefreshStatus"
                /\ tasks[i].born >= k
                /\ tasks[i].born >= l

\* C6: a Rescan spawns exactly one discovery task for its base; a successful
\* scan sends one RepoDiscovered per repository below the base and then exactly
\* one ScanCompleted, and the loop receives the events of one scan in the order
\* they were sent, whatever other scans send in between.
Max(S) == CHOOSE m \in S : \A n \in S : n <= m

\* The bases of the handled Rescan commands, and of the tasks they spawned.
RECURSIVE RescanBases(_)
RescanBases(cmds) ==
    IF cmds = <<>> THEN <<>>
    ELSE (IF Head(cmds).type = "Rescan" THEN <<Head(cmds).base>> ELSE <<>>)
            \o RescanBases(Tail(cmds))

RECURSIVE TaskBases(_)
TaskBases(ts) ==
    IF ts = <<>> THEN <<>>
    ELSE (IF Head(ts).kind = "scan" /\ Head(ts).origin = "Rescan"
          THEN <<Head(ts).base>> ELSE <<>>)
            \o TaskBases(Tail(ts))

ReposBelow(base) == {p \in RepoDirs : IsPrefix(base, p)}

\* What a successful scan sends, sent already or not.
ScanStream(i) ==
    LET es == EventsOf(i) \o tasks[i].pending
        n == Cardinality(ReposBelow(tasks[i].base))
    IN  /\ Len(es) = n + 1
        /\ es[n + 1] = ScanCompleted(i)
        /\ \A k \in 1..n :
              /\ es[k].type = "RepoDiscovered"
              /\ es[k].id \in ReposBelow(tasks[i].base)
              /\ es[k].meta = RepoMeta(es[k].id, tasks[i].base)
        /\ \A k, l \in 1..n : es[k].id = es[l].id => k = l

C6_RescanStream ==
    /\ TaskBases(tasks) = RescanBases(handled)
    /\ \A i \in DOMAIN tasks :
          (tasks[i].kind = "scan" /\ tasks[i].result = "ok")
              => /\ ScanStream(i)
                 /\ IsPrefix(SelectSeq(external, LAMBDA e : e.op = i), EventsOf(i))
                 /\ tasks[i].state = "finished" <=> tasks[i].pending = <<>>

\* C6 witness: the events of two scans reached the loop interleaved, each scan
\* complete.
C6_Witness ==
    \E i, j \in DOMAIN tasks :
       /\ i # j
       /\ tasks[i].kind = "scan" /\ tasks[i].result = "ok"
       /\ tasks[j].kind = "scan" /\ tasks[j].result = "ok" /\ tasks[j].origin = "Rescan"
       /\ \E k, l, m \in DOMAIN external :
             /\ k < l /\ l < m
             /\ external[k].op = i /\ external[l].op = j /\ external[m].op = i
             /\ external[m].type = "ScanCompleted"
       /\ Forwarded("ScanCompleted")
       /\ Len(SelectSeq(external, LAMBDA e : e.type = "ScanCompleted")) = 2

\* C7: RefreshStatus spawns one status task per element of ids, in order; a
\* status task sends nothing before it ends and exactly one event when it
\* ends, StatusUpdated for its id or an Error scoped to its id; and a status
\* task never waits for another one, whatever became of the others.
RECURSIVE RefreshIds(_)
RefreshIds(cmds) ==
    IF cmds = <<>> THEN <<>>
    ELSE (IF Head(cmds).type = "RefreshStatus" THEN Head(cmds).ids ELSE <<>>)
            \o RefreshIds(Tail(cmds))

RECURSIVE TaskIdsBy(_, _)
TaskIdsBy(ts, origin) ==
    IF ts = <<>> THEN <<>>
    ELSE (IF Head(ts).kind = "status" /\ Head(ts).origin = origin
          THEN <<Head(ts).id>> ELSE <<>>)
            \o TaskIdsBy(Tail(ts), origin)

OneStatusEvent(i) ==
    LET es == EventsOf(i)
    IN  IF tasks[i].state # "finished" THEN es = <<>>
        ELSE /\ Len(es) = 1
             /\ es[1].id = tasks[i].id
             /\ IF tasks[i].result = "ok"
                THEN es[1].type = "StatusUpdated" /\ es[1].status \in StatusValues
                ELSE es[1].type = "Error"

C7_RefreshIndependent ==
    /\ TaskIdsBy(tasks, "RefreshStatus") = RefreshIds(handled)
    /\ \A i \in DOMAIN tasks :
          tasks[i].kind = "status"
              => /\ OneStatusEvent(i)
                 /\ tasks[i].state = "running" => ENABLED Lookup(i)
                 /\ tasks[i].state = "calling" => ENABLED CompleteStatus(i)

\* C7 witness: one RefreshStatus command for two ids; the call for the first
\* failed, the task of the second ended all the same, with a status.
C7_Witness ==
    \E i, j \in DOMAIN tasks :
       /\ j = i + 1
       /\ tasks[i].origin = "RefreshStatus" /\ tasks[j].origin = "RefreshStatus"
       /\ tasks[i].id # tasks[j].id
       /\ tasks[i].state = "finished" /\ tasks[i].result = "err"
       /\ tasks[j].state = "finished" /\ tasks[j].result = "ok"
       /\ \E k \in DOMAIN folded : folded[k].op = j

\* C8: the status the projection holds for a repository is the status of the
\* StatusUpdated folded last for it, whole; and a run never ends with a task
\* that has not ended, an event not handled or a command not handled.
LastWins(r) ==
    LET P == Positions(folded, "StatusUpdated", r)
    IN  IF P = {} THEN r \notin DOMAIN projection.statuses
        ELSE /\ r \in DOMAIN projection.statuses
             /\ projection.statuses[r] = folded[Max(P)].status

Quiescent ==
    /\ loop = "select"
    /\ command_rx = <<>>
    /\ event_rx = <<>>
    /\ submitted = Len(session.commands)
    /\ \A i \in DOMAIN tasks : tasks[i].state = "finished"

C8_LastFoldedWins ==
    /\ \A r \in RepoIds : LastWins(r)
    /\ ~ENABLED Next => Quiescent

\* C8 witness: two RefreshStatus commands for the same repository, both tasks
\* ended with a status, the two differ in every field, both are folded, and
\* the run is over.
C8_Witness ==
    /\ Quiescent
    /\ \E i, j \in DOMAIN tasks :
          /\ i # j
          /\ tasks[i].origin = "RefreshStatus" /\ tasks[j].origin = "RefreshStatus"
          /\ tasks[i].id = RepoA /\ tasks[j].id = RepoA
          /\ \E k, l \in DOMAIN folded :
                /\ k < l
                /\ folded[k].op = i /\ folded[l].op = j
                /\ folded[k].type = "StatusUpdated" /\ folded[l].type = "StatusUpdated"
                /\ folded[k].status.branch_name # folded[l].status.branch_name
                /\ folded[k].status.is_dirty # folded[l].status.is_dirty
                /\ l = Max(Positions(folded, "StatusUpdated", RepoA))

\* C9: a status task whose call failed sends exactly one event, an Error scoped
\* to its id, and no StatusUpdated; handling an Error leaves the projection as
\* it is; and the loop keeps running and taking commands.
FailedRefresh(i) ==
    (tasks[i].kind = "status" /\ tasks[i].state = "finished" /\ tasks[i].result = "err")
        => EventsOf(i) = <<Error(tasks[i].id, "Status update failed", i)>>

C9_FailedRefresh ==
    /\ [](/\ \A i \in DOMAIN tasks : FailedRefresh(i)
          /\ loop # "exited"
          /\ (loop = "select" /\ command_rx # <<>>) => ENABLED HandleCommand)
    /\ [][event.type = "Error" => projection' = projection]_vars

\* C9 witness: the path of a registered repository could not be opened, the
\* Error was handled, and a command submitted later was handled and its task
\* ended.
C9_Witness ==
    \E i, j \in DOMAIN tasks :
       /\ tasks[i].kind = "status" /\ tasks[i].origin = "RefreshStatus"
       /\ tasks[i].found /\ tasks[i].result = "err"
       /\ tasks[j].origin = "RefreshStatus" /\ tasks[j].state = "finished"
       /\ \E k \in DOMAIN folded :
             /\ folded[k].op = i
             /\ \E p \in DOMAIN external : external[p].op = i /\ tasks[j].born >= p

FetchTasks(ts) == SelectSeq(ts, LAMBDA t : t.kind = "fetch")

FetchAllSnapshot ==
    IF loop = "select" /\ command_rx # <<>> /\ handled' # handled
          /\ Head(command_rx).type = "FetchAll"
    THEN LET new == SubSeq(tasks', Len(tasks) + 1, Len(tasks'))
         IN  /\ Len(tasks') >= Len(tasks)
             /\ SubSeq(tasks', 1, Len(tasks)) = tasks
             /\ Len(new) = Cardinality(DOMAIN projection.repositories)
             /\ {new[k].id : k \in DOMAIN new} = DOMAIN projection.repositories
             /\ \A k \in DOMAIN new :
                   /\ new[k].kind = "fetch"
                   /\ new[k].remote = "origin"
                   /\ new[k].prune = Head(command_rx).prune
                   /\ new[k].state = "running"
    ELSE Len(FetchTasks(tasks')) = Len(FetchTasks(tasks))

OneFetchEvent(i) ==
    LET es == EventsOf(i)
    IN  IF tasks[i].state # "finished" THEN es = <<>>
        ELSE /\ Len(es) = 1
             /\ es[1].type = "RepoFetched"
             /\ es[1].id = tasks[i].id

C11_FetchAllSnapshot ==
    /\ [][FetchAllSnapshot]_vars
    /\ [](\A i \in DOMAIN tasks : tasks[i].kind = "fetch" => OneFetchEvent(i))

\* C11 witness: a FetchAll was handled when one repository was known, its one
\* fetch task ended and the RepoFetched was handled.
C11_Witness ==
    /\ \E k \in DOMAIN handled : handled[k].type = "FetchAll"
    /\ Len(FetchTasks(tasks)) = 1
    /\ \E i \in DOMAIN tasks :
          /\ tasks[i].kind = "fetch" /\ tasks[i].id = RepoA
          /\ tasks[i].remote = "origin" /\ tasks[i].prune
          /\ tasks[i].state = "finished"
          /\ \E k \in DOMAIN folded :
                folded[k].op = i /\ folded[k].type = "RepoFetched" /\ folded[k].id = RepoA

\* C12: handling a RepoFetched with ok = true spawns exactly one status task
\* for its id, handling one with ok = false spawns none, and after a successful
\* fetch of a repository has been handled the StatusUpdated or the scoped Error
\* of the status task it started eventually reaches the subscribers.
FetchChains ==
    (loop = "handle_event" /\ loop' # "handle_event" /\ event.type = "RepoFetched")
        => IF event.ok
           THEN /\ Len(tasks') = Len(tasks) + 1
                /\ SubSeq(tasks', 1, Len(tasks)) = tasks
                /\ tasks'[Len(tasks')].kind = "status"
                /\ tasks'[Len(tasks')].id = event.id
                /\ tasks'[Len(tasks')].state = "running"
           ELSE tasks' = tasks

FetchedOk(r) ==
    \E k \in DOMAIN folded :
       folded[k].type = "RepoFetched" /\ folded[k].id = r /\ folded[k].ok

StatusAfterFetch(r) ==
    \E k \in DOMAIN external :
       /\ external[k].id = r
       /\ external[k].type \in {"StatusUpdated", "Error"}
       /\ external[k].op \in DOMAIN tasks
       /\ tasks[external[k].op].kind = "status"
       /\ tasks[external[k].op].origin = "RepoFetched"

C12_FetchImpliesRefresh ==
    /\ [][FetchChains]_vars
    /\ \A r \in RepoIds : FetchedOk(r) ~> StatusAfterFetch(r)

\* C12 witness: a successful fetch was handled and the status of the task it
\* started arrived after it.
C12_Witness ==
    \E k, l \in DOMAIN external :
       /\ k < l
       /\ external[k].type = "RepoFetched" /\ external[k].ok /\ external[k].id = RepoA
       /\ external[l].type = "StatusUpdated" /\ external[l].id = RepoA
       /\ tasks[external[l].op].origin = "RepoFetched"
       /\ tasks[external[l].op].born >= k

\* C13: handling ShowLog spawns exactly one log task for its id, with its
\* limit and with range "HEAD" when the command has none; the task sends
\* nothing before it ends and exactly one event when it ends, LogLoaded for its
\* id or an Error scoped to its id; and handling either leaves the projection
\* as it is.
ShowLogSpawnsOne ==
    (loop = "select" /\ command_rx # <<>> /\ handled' # handled
        /\ Head(command_rx).type = "ShowLog")
        => LET cmd == Head(command_rx)
           IN  /\ Len(tasks') = Len(tasks) + 1
               /\ SubSeq(tasks', 1, Len(tasks)) = tasks
               /\ tasks'[Len(tasks')].kind = "log"
               /\ tasks'[Len(tasks')].id = cmd.id
               /\ tasks'[Len(tasks')].limit = cmd.limit
               /\ tasks'[Len(tasks')].range =
                     (IF cmd.range = NoRange THEN "HEAD" ELSE cmd.range)
               /\ tasks'[Len(tasks')].state = "running"

LogResultKeepsProjection ==
    (loop = "handle_event" /\ event.op \in DOMAIN tasks /\ tasks[event.op].kind = "log")
        => projection' = projection

OneLogEvent(i) ==
    LET es == EventsOf(i)
    IN  IF tasks[i].state # "finished" THEN es = <<>>
        ELSE /\ Len(es) = 1
             /\ es[1].id = tasks[i].id
             /\ IF tasks[i].result = "ok"
                THEN es[1].type = "LogLoaded" /\ es[1].commits \in 0..tasks[i].limit
                ELSE es[1].type = "Error"

C13_ShowLog ==
    /\ [][ShowLogSpawnsOne /\ LogResultKeepsProjection]_vars
    /\ [](\A i \in DOMAIN tasks : tasks[i].kind = "log" => OneLogEvent(i))

\* C13 witness: a ShowLog without a range ran on HEAD, loaded a commit, and its
\* LogLoaded was handled.
C13_Witness ==
    /\ loop = "select"
    /\ \E k \in DOMAIN handled :
          handled[k].type = "ShowLog" /\ handled[k].range = NoRange
    /\ \E i \in DOMAIN tasks :
          /\ tasks[i].kind = "log" /\ tasks[i].range = "HEAD" /\ tasks[i].id = RepoA
          /\ \E k \in DOMAIN folded :
                /\ folded[k].op = i
                /\ folded[k].type = "LogLoaded"
                /\ folded[k].commits = LogLimit

\* C14: a scan that failed returns no repository; its task sends exactly one
\* event, an Error without a repository id, no RepoDiscovered and no
\* ScanCompleted; and handling that event leaves the projection as it is.
FailedScanStream(i) ==
    LET es == EventsOf(i) \o tasks[i].pending
    IN  /\ Len(es) = 1
        /\ es[1].type = "Error"
        /\ es[1].id = NoId
        /\ es[1].msg = "Discovery failed"
        /\ tasks[i].state = "finished" <=> tasks[i].pending = <<>>

FailedScanKeepsProjection ==
    (loop = "handle_event" /\ event.op \in DOMAIN tasks
        /\ tasks[event.op].kind = "scan" /\ tasks[event.op].result = "err")
        => projection' = projection

C14_FailedScan ==
    /\ [](\A i \in DOMAIN tasks :
             (tasks[i].kind = "scan" /\ tasks[i].result = "err") => FailedScanStream(i))
    /\ [][FailedScanKeepsProjection]_vars

\* C14 witness: the scan of a Rescan failed after an earlier scan had found a
\* repository; its Error was handled and the repository is still known.
C14_Witness ==
    /\ loop = "select"
    /\ RepoA \in DOMAIN projection.repositories
    /\ \E i \in DOMAIN tasks :
          /\ tasks[i].kind = "scan" /\ tasks[i].origin = "Rescan"
          /\ tasks[i].result = "err" /\ tasks[i].state = "finished"
          /\ \E k \in DOMAIN folded :
                /\ folded[k].op = i
                /\ \E l \in 1..(k - 1) : folded[l].type = "RepoDiscovered"

\* C15: folding the events the loop has folded once more, from the empty
\* projection, gives the projection the loop holds, field by field: apply
\* depends on the projection and the event it is given and on nothing else.

C16_OnlyEventsFold ==
    [][/\ projection' # projection => (loop = "handle_event" /\ loop' = "select")
       /\ handled' # handled => projection' = projection
       /\ (tasks' # tasks /\ loop' = loop) => projection' = projection]_vars

\* C16 witness: a command that starts tasks has been handled and a task it
\* started has run to its end and sent its event, and the projection is still
\* the empty one.
C16_Witness ==
    /\ projection = EmptyProjection
    /\ \E i \in DOMAIN tasks :
          /\ tasks[i].origin = "RefreshStatus"
          /\ tasks[i].state = "finished"
          /\ EventsOf(i) # <<>>

\* C17: what one call of apply does. RepoDiscovered makes repositories[id] the
\* metadata of the event and changes nothing else; StatusUpdated makes
\* statuses[id] the status of the event, whole, and changes nothing else;
\* ScanCompleted makes scanning false and changes nothing else; every other
\* event leaves the projection as it is.
SameElsewhere(m, n, k) ==
    /\ DOMAIN n = DOMAIN m \cup {k}
    /\ \A x \in DOMAIN m \ {k} : n[x] = m[x]

ApplyEffect(p, e, q) ==
    CASE e.type = "RepoDiscovered" ->
            /\ SameElsewhere(p.repositories, q.repositories, e.id)
            /\ q.repositories[e.id] = e.meta
            /\ q.statuses = p.statuses /\ q.groups = p.groups
            /\ q.scanning = p.scanning /\ q.refreshing_status = p.refreshing_status
      [] e.type = "StatusUpdated" ->
            /\ SameElsewhere(p.statuses, q.statuses, e.id)
            /\ q.statuses[e.id] = e.status
            /\ q.repositories = p.repositories /\ q.groups = p.groups
            /\ q.scanning = p.scanning /\ q.refreshing_status = p.refreshing_status
      [] e.type = "ScanCompleted" ->
            /\ q.scanning = FALSE
            /\ q.repositories = p.repositories /\ q.statuses = p.statuses
            /\ q.groups = p.groups /\ q.refreshing_status = p.refreshing_status
      [] e.type \in {"FetchProgress", "RepoFetched", "LogLoaded", "Error", "QuitRequested"} ->
            q = p

C17_ApplyEffect ==
    [][folded' # folded => ApplyEffect(projection, event', projection')]_vars

\* C17 witness: from a projection with a group, scanning and refreshing, a
\* repository was inserted, its status set and then replaced by one that
\* differs in every field; the group and the flags are as they were.
C17_Witness ==
    /\ loop = "apply"
    /\ projection.groups # <<>> /\ projection.scanning /\ projection.refreshing_status
    /\ Len(folded) >= 3
    /\ folded[1].type = "RepoDiscovered" /\ folded[1].id = RepoA
    /\ folded[2].type = "StatusUpdated" /\ folded[2].id = RepoA
    /\ folded[3].type = "StatusUpdated" /\ folded[3].id = RepoA
    /\ folded[2].status.branch_name # folded[3].status.branch_name
    /\ folded[2].status.is_dirty # folded[3].status.is_dirty
    /\ projection.statuses[RepoA] = folded[3].status
    /\ projection.repositories[RepoA] = folded[1].meta

MetaKeepsNameAndPath ==
    \A id \in DOMAIN projection.repositories :
       /\ id \in DOMAIN projection'.repositories
       /\ projection'.repositories[id].name = projection.repositories[id].name
       /\ projection'.repositories[id].path = projection.repositories[id].path

MetaOfLastScan(id) ==
    LET P == Positions(folded, "RepoDiscovered", id)
    IN  IF P = {} THEN id \notin DOMAIN projection.repositories
        ELSE /\ id \in DOMAIN projection.repositories
             /\ projection.repositories[id] = folded[Max(P)].meta
             /\ projection.repositories[id].path = id
             /\ projection.repositories[id].name = FileName(id)
             /\ projection.repositories[id].auto_group =
                   determine_auto_group(id, tasks[folded[Max(P)].op].base)

C19_NoPruning ==
    [][/\ DOMAIN projection.repositories \subseteq DOMAIN projection'.repositories
       /\ DOMAIN projection.statuses \subseteq DOMAIN projection'.statuses]_vars

\* C19 witness: the first scan found a repository and its status arrived; a
\* Rescan of a base that does not contain it found another repository and
\* completed; both repositories and the status of the first are known.
C19_Witness ==
    /\ loop = "select"
    /\ \E i \in DOMAIN tasks :
          /\ tasks[i].kind = "scan" /\ tasks[i].origin = "Rescan"
          /\ ~IsPrefix(tasks[i].base, RepoA)
          /\ \E k, l, m \in DOMAIN folded :
                /\ k < l /\ l < m
                /\ folded[k].type = "StatusUpdated" /\ folded[k].id = RepoA
                /\ folded[l].type = "RepoDiscovered" /\ folded[l].op = i
                /\ folded[m].type = "ScanCompleted" /\ folded[m].op = i
    /\ DOMAIN projection.repositories = {RepoA, RepoB}
    /\ RepoA \in DOMAIN projection.statuses

\* C20: the loop never waits on a backend call. Whatever tasks are in flight,
\* at its select the loop takes the next command or event as soon as there is
\* one, and in handle_event it finishes the event; a step of the loop only
\* appends tasks that have not started, and never moves a task on: every
\* lookup, call and send of a task is a step of a worker.
InFlight == {i \in DOMAIN tasks : tasks[i].state # "finished"}

LoopOnlySpawns ==
    (handled' # handled \/ loop' # loop)
        => /\ Len(tasks') >= Len(tasks)
           /\ SubSeq(tasks', 1, Len(tasks)) = tasks
           /\ \A i \in (Len(tasks) + 1)..Len(tasks') :
                 /\ tasks'[i].state = "running"
                 /\ tasks'[i].result = ""
                 /\ tasks'[i].pending = <<>>

C20_LoopNeverWaits ==
    /\ [](/\ (loop = "select" /\ command_rx # <<>>) => ENABLED HandleCommand
          /\ (loop = "select" /\ event_rx # <<>>) => ENABLED ForwardEvent
          /\ loop = "handle_event" => ENABLED FoldEvent)
    /\ [][LoopOnlySpawns]_vars

\* C20 witness: while the status task of a discovered repository is still in
\* its backend call, the loop has handled a later event and a command, whose
\* fetch task is in flight as well.
C20_Witness ==
    /\ loop = "select"
    /\ \E i, j \in InFlight :
          /\ i < j
          /\ tasks[i].origin = "RepoDiscovered" /\ tasks[i].state = "calling"
          /\ tasks[j].origin = "FetchAll" /\ tasks[j].born > tasks[i].born
    /\ \E k \in DOMAIN handled : handled[k].type = "FetchAll"

\* C21: the lock of the path registry is held for one insert or one lookup
\* only. The writer and a reader never hold it together; whoever holds it
\* releases it with its next step, which nothing can delay; a task that is in
\* a backend call (open, status, fetch, log) holds no guard; and the task the
\* loop starts for a discovered repository is spawned after the path is
\* registered, so its lookup finds the path.
InBackendCall(t) == t.state \in {"opening", "calling"}

ChainedFindsPath(i) ==
    tasks[i].origin = "RepoDiscovered"
        => /\ tasks[i].id \in DOMAIN repo_paths
           /\ tasks[i].state \notin {"running", "reading"} => tasks[i].found

C21_RegistryDiscipline ==
    /\ ~(loop = "writing" /\ Readers # {})
    /\ loop = "writing" => ENABLED RegisterInsert
    /\ \A i \in DOMAIN tasks :
          /\ HoldsRead(tasks[i]) => ENABLED GetRepoPath(i)
          /\ InBackendCall(tasks[i]) => ~HoldsRead(tasks[i])
          /\ ChainedFindsPath(i)

\* C21 witness: the loop holds the write lock to register a second repository
\* while the task it started for the first one, which found its path, is in
\* GitRepository::open.
C21_Witness ==
    /\ loop = "writing"
    /\ event.id = RepoB
    /\ \E i \in DOMAIN tasks :
          /\ tasks[i].origin = "RepoDiscovered" /\ tasks[i].id = RepoA
          /\ tasks[i].state = "opening" /\ tasks[i].found

\* C22: a call for an id that was never registered ends as a failed call, not
\* as a panic: its task ends with an Err and reports it as the failure of
\* its kind (status and log an Error scoped to the id, fetch a RepoFetched
\* that is not ok, ahead_behind an Err to its caller); no task ever panics,
\* so the second lookup of status always finds the path the first one found,
\* whatever the loop registers in between; and the loop keeps running.
UnregisteredFails(i) ==
    (tasks[i].id = GoneId /\ tasks[i].state = "finished")
        => /\ tasks[i].result = "err"
           /\ ~tasks[i].found
           /\ EventsOf(i) =
                 CASE tasks[i].kind = "status" ->
                         <<Error(GoneId, "Status update failed", i)>>
                   [] tasks[i].kind = "log" ->
                         <<Error(GoneId, "Log loading failed", i)>>
                   [] tasks[i].kind = "fetch" ->
                         <<RepoFetched(GoneId, FALSE, "Fetch failed", i)>>
                   [] OTHER -> <<>>

C22_UnregisteredId ==
    /\ \A i \in DOMAIN tasks :
          /\ UnregisteredFails(i)
          /\ tasks[i].result # "panic"
          /\ tasks[i].state = "rereading" => tasks[i].id \in DOMAIN repo_paths
    /\ loop # "exited"
    /\ (loop = "select" /\ event_rx # <<>>) => ENABLED TakeEvent

\* C22 witness: ahead_behind for the unregistered id has ended with an Err,
\* and the loop is registering a second repository while the status task of
\* the first one stands between its two lookups.
C22_Witness ==
    /\ loop = "writing"
    /\ event.id = RepoB
    /\ \E i \in DOMAIN tasks :
          /\ tasks[i].kind = "ahead_behind" /\ tasks[i].id = GoneId
          /\ tasks[i].state = "finished" /\ tasks[i].result = "err"
    /\ \E i \in DOMAIN tasks :
          /\ tasks[i].kind = "status" /\ tasks[i].id = RepoA
          /\ tasks[i].state = "relookup"

\* The paths a scan has pushed so far, and the scans that returned Ok.
PathsOf(i) == {tasks[i].repositories[k].path : k \in DOMAIN tasks[i].repositories}

Returned == {i \in DOMAIN tasks : tasks[i].state = "finished"}

\* C23: discovery is idempotent and duplicate-free: no scan ever holds a path
\* twice in its Vec, and two scans of one base over the unchanged tree end
\* alike, with the same set of repository paths.
C23_ScanIdempotent ==
    /\ \A i \in DOMAIN tasks :
          \A k, l \in DOMAIN tasks[i].repositories :
             tasks[i].repositories[k].path = tasks[i].repositories[l].path => k = l
    /\ \A i, j \in Returned :
          /\ tasks[i].result = tasks[j].result
          /\ PathsOf(i) = PathsOf(j)

\* C23 witness: two scans have returned three repositories each, in
\* different orders.
C23_Witness ==
    /\ Returned = {1, 2}
    /\ tasks[1].result = "ok"
    /\ Cardinality(PathsOf(1)) = 3
    /\ tasks[1].repositories # tasks[2].repositories

\* A path lies inside a directory: the directory is a proper prefix of it.
Inside(p, q) == IsPrefix(q, p) /\ q # p

InGit(p) == \E k \in DOMAIN p : p[k] = ".git"

Outermost(tree, base) ==
    {d \in WalkDirs :
        /\ IsPrefix(base, d)
        /\ GitIsDir(tree, d)
        /\ \A q \in WalkDirs : Inside(d, q) => ~GitIsDir(tree, q)}

\* C25: a scan that returns reports exactly the outermost repositories at or
\* below its base, each once; a directory holding only a plain .git file is
\* not reported and hides nothing below it.
C25_Complete ==
    \A i \in Returned :
       tasks[i].result = "ok"
          => /\ PathsOf(i) = Outermost(session.tree, tasks[i].base)
             /\ Len(tasks[i].repositories) = Cardinality(PathsOf(i))

\* The metadata a scan has pushed so far.
MetasOf(i) == {tasks[i].repositories[k] : k \in DOMAIN tasks[i].repositories}

\* The first path segment below the base.
FirstBelow(p, base) == p[Len(base) + 1]

SameGroupForSamePath ==
    \A i, j \in DOMAIN tasks :
       \A m \in MetasOf(i), n \in MetasOf(j) :
          m.path = n.path => m.auto_group = n.auto_group

\* C26 as stated: a reported direct child of the base is "Ungrouped", and a
\* reported path deeper below it is "Auto: X", X its first segment below the
\* base.
C26_AutoGroupLaw ==
    /\ \A i \in DOMAIN tasks :
          \A m \in MetasOf(i) :
             /\ Len(m.path) = Len(tasks[i].base) + 1 => m.auto_group = "Ungrouped"
             /\ Len(m.path) > Len(tasks[i].base) + 1
                   => m.auto_group =
                         "Auto: " \o to_string_lossy(FirstBelow(m.path, tasks[i].base))
    /\ SameGroupForSamePath

\* C26: a reported direct child of the base, and the base itself, are
\* "Ungrouped"; a reported path deeper below the base is "Auto: X" when its
\* first segment X below the base is valid UTF-8 and "Ungrouped" when it is
\* not; the label depends on the path and the base only.
C26_AutoGroupUtf8 ==
    /\ \A i \in DOMAIN tasks :
          \A m \in MetasOf(i) :
             /\ Len(m.path) <= Len(tasks[i].base) + 1 => m.auto_group = "Ungrouped"
             /\ Len(m.path) > Len(tasks[i].base) + 1
                   => LET X == FirstBelow(m.path, tasks[i].base)
                      IN  m.auto_group =
                             IF IsUtf8(X) THEN "Auto: " \o X ELSE "Ungrouped"
    /\ SameGroupForSamePath

\* C26 witness: one scan has reported its base, a repository two levels
\* below it as "Auto: x", and one below a directory whose name is not UTF-8
\* as "Ungrouped".
C26_Witness ==
    \E i \in Returned :
       /\ RepoMeta(Root, Root) \in MetasOf(i)
       /\ \E m \in MetasOf(i) : m.path = DirXA /\ m.auto_group = "Auto: x"
       /\ \E m \in MetasOf(i) : m.path = DirFA /\ m.auto_group = "Ungrouped"

\* The repositories map after folding what the first scan sent.
AfterFirstScan == Replay(EmptyProjection, tasks[1].pending).repositories

DistinctPathsDistinctIds ==
    \A i, j \in DOMAIN tasks :
       \A m \in MetasOf(i), n \in MetasOf(j) :
          m.path # n.path => RepoIdOf(m) # RepoIdOf(n)

RescanKeepsRepositories ==
    (Returned = {1, 2} /\ tasks[1].result = "ok")
        => projection.repositories = AfterFirstScan

\* C27: ids are stable: two distinct repository paths never receive equal
\* ids, and a second scan of the same base over the unchanged tree leaves
\* Projection.repositories as the first scan left it.
C27_StableIds ==
    /\ DistinctPathsDistinctIds
    /\ RescanKeepsRepositories

\* The members of the group, and the order two of them stand in.
Members(p) == p.groups["g"].repos

Before(s, a, b) ==
    \E k, l \in DOMAIN s : k < l /\ s[k] = a /\ s[l] = b

NoPathTwice(s) == \A k, l \in DOMAIN s : s[k] = s[l] => k = l

\* What one call on the group did, from the members before and after.
GroupLaw ==
    LET call == handled'[Len(handled')]
        old == Members(projection)
        new == Members(projection')
        path == call.id
        was == contains_repo(projection.groups["g"], path)
    IN  (loop = "group" /\ handled' # handled)
           => /\ call.type = "add_repo"
                    => new = IF was THEN old ELSE Append(old, path)
              /\ call.type = "remove_repo"
                    => /\ ~contains_repo(projection'.groups["g"], path)
                       /\ \A a \in GroupPaths \ {path} :
                             contains_repo(projection'.groups["g"], a)
                                <=> contains_repo(projection.groups["g"], a)
                       /\ \A a, b \in GroupPaths \ {path} :
                             Before(new, a, b) <=> Before(old, a, b)

\* Every Vec repositories_in_group can return lists the members that some
\* repository has as its path, in member order, whatever the ids.
ResolvedByPath ==
    \A r \in repositories_in_group(projection, "g") :
       [k \in DOMAIN r |-> r[k].path]
          = SelectSeq(Members(projection), LAMBDA path : path \in {RepoA, RepoB})

\* C28: a Group is an ordered set of paths: no member occurs twice; add_repo
\* of a member changes nothing and of another path appends it last;
\* remove_repo(p) leaves p out and the other members in their order; and
\* repositories_in_group resolves the members by path, not by RepoId.
C28_GroupOrderedSet ==
    /\ [](loop = "group" => NoPathTwice(Members(projection)) /\ ResolvedByPath)
    /\ [][GroupLaw]_vars

\* C28 witness: a member between two others was removed and added again: it
\* now stands last, the others as before, and the group resolves to those
\* two.
C28_Witness ==
    /\ loop = "group"
    /\ handled = <<GroupCall("remove_repo", GoneId), GroupCall("add_repo", GoneId),
                   GroupCall("add_repo", RepoA)>>
    /\ Members(projection) = <<RepoA, RepoB, GoneId>>
    /\ "3" \in DOMAIN projection.repositories

\* The repository the status task read, and the RepoStatus it sent.
Git == session.git

Tracking == Git.head = "branch" /\ Git.upstream = "ok" /\ Git.graph # GraphErr

StatusSent == {k \in DOMAIN sent : sent[k].type = "StatusUpdated"}

\* C29: status on an openable repository whose status list can be read never
\* fails, whatever the upstream; and whenever HEAD is not a branch with a
\* resolvable upstream and a computable graph, the RepoStatus it returns has
\* ahead_count = 0 and behind_count = 0.
C29_AheadBehindDegrades ==
    (loop = "status" /\ tasks[1].state = "finished")
        => /\ ~Git.bare => (tasks[1].result = "ok" /\ StatusSent = {1})
           /\ \A k \in StatusSent :
                 /\ ~Tracking => (sent[k].status.ahead_count = 0
                                    /\ sent[k].status.behind_count = 0)
                 /\ Tracking => <<sent[k].status.ahead_count,
                                  sent[k].status.behind_count>> = Git.graph

\* C29 witness: a dirty repository on a branch whose upstream reference does
\* not resolve got its RepoStatus, with 0 ahead and 0 behind.
C29_Witness ==
    /\ loop = "status"
    /\ Git.head = "branch" /\ Git.upstream = "dangling" /\ Git.graph = <<2, 1>>
    /\ StatusSent = {1}
    /\ sent[1].status.is_dirty
    /\ sent[1].status.ahead_count = 0 /\ sent[1].status.behind_count = 0

\* The diff status lists: untracked entries included, ignored ones not.
Diff == Git.entries \ {"IGNORED"}

FlagsConsistent(st) ==
    /\ st.is_dirty <=> Diff # {}
    /\ (st.has_staged \/ st.has_unstaged) => st.is_dirty
    /\ Diff = {} => (~st.is_dirty /\ ~st.has_staged /\ ~st.has_unstaged)
    /\ Git.head = "detached" => st.is_detached

\* C30 as stated: the flags agree with the diff, a detached HEAD is
\* reported as detached, and a clean repository on a branch is reported as
\* not detached with the short name of the branch.
C30_StatusFlags ==
    \A k \in StatusSent :
       LET st == sent[k].status
       IN  loop = "status"
              => /\ FlagsConsistent(st)
                 /\ (Diff = {} /\ Git.head # "detached")
                       => (~st.is_detached /\ st.branch_name # None
                             /\ (Git.head \in {"branch", "unborn"}
                                    => st.branch_name = Some(BranchShort)))

\* C30: the flags agree with the diff and a detached HEAD is reported as
\* detached; a repository on a branch is reported as not detached, with the
\* short name of the branch when the branch has a commit and a UTF-8 name
\* and with no branch name when the branch is unborn or its name is not
\* UTF-8.
C30_StatusFlagsBorn ==
    \A k \in StatusSent :
       LET st == sent[k].status
       IN  loop = "status"
              => /\ FlagsConsistent(st)
                 /\ Git.head # "detached" => ~st.is_detached
                 /\ Git.head = "branch" => st.branch_name = Some(BranchShort)
                 /\ Git.head \in {"unborn", "branch_bytes"} => st.branch_name = None

\* C30 witness: a freshly initialised repository, clean apart from an
\* ignored file, got a RepoStatus that is not dirty, not detached and names
\* no branch.
C30_Witness ==
    /\ loop = "status"
    /\ Git.head = "unborn" /\ Git.entries = {"IGNORED"}
    /\ StatusSent = {1}
    /\ ~sent[1].status.is_dirty /\ ~sent[1].status.is_detached
    /\ sent[1].status.branch_name = None

\* The range and limit of the log call, and what it sent.
LogRange == tasks[1].range

Separators(range) == Len(split(range, <<>>)) - 1

\* A side of the range that names no commit of the repository.
Unresolvable(range) ==
    LET parts == split(range, <<>>)
    IN  \/ Separators(range) = 0 /\ range # <<>>
             /\ ~revparse_single(session.git, range).ok
        \/ Separators(range) = 1
             /\ \E k \in 1..2 : parts[k] # <<>>
                                  /\ ~revparse_single(session.git, parts[k]).ok

\* C31: log fails, and never returns a list, when the range has more than
\* one ".." separator or names a revision that does not resolve; when it
\* succeeds it returns at most limit commits.
C31_LogFails ==
    (loop = "log" /\ tasks[1].state = "finished")
        => /\ (Separators(LogRange) > 1 \/ Unresolvable(LogRange))
                 => (tasks[1].result = "err" /\ sent[1].type = "Error")
           /\ sent[1].type = "LogLoaded" => Len(sent[1].commits) <= tasks[1].limit

\* The events of one type in a stream.
OfType(stream, type) == SelectSeq(stream, LAMBDA e : e.type = type)

\* The repository paths below the base of the scan.
LegacyRepos == {p \in RepoDirs : IsPrefix(tasks[1].base, p)}

DiscoveredPaths(stream) ==
    {stream[k].meta.path : k \in DOMAIN OfType(stream, "RepoDiscovered")}

\* C32: the legacy background scan sends one RepoDiscovered per repository
\* found, no path twice, then one ScanCompleted as its last event; when
\* find_repos fails it sends one ScanError and nothing else; and once the
\* receiver is dropped it sends nothing more, so no ScanCompleted.
C32_LegacyScanOrder ==
    (loop \in {"receiving", "dropped"} /\ tasks[1].state = "finished")
        => LET rd == OfType(sent, "RepoDiscovered")
           IN  /\ \A k, l \in DOMAIN rd : rd[k].meta.path = rd[l].meta.path => k = l
               /\ tasks[1].result = "err"
                     => (sent = <<ScanError(1)>> \/ (sent = <<>> /\ loop = "dropped"))
               /\ tasks[1].result = "ok"
                     => /\ OfType(sent, "ScanError") = <<>>
                        /\ tasks[1].pending = <<>>
                              => /\ sent = Append(rd, ScanCompleted(1))
                                 /\ {rd[k].meta.path : k \in DOMAIN rd} = LegacyRepos
                        /\ tasks[1].pending # <<>>
                              => /\ loop = "dropped"
                                 /\ sent = rd

\* C32 witness: a scan that found two repositories sent the first, lost the
\* receiver, and ended without a ScanCompleted.
C32_Witness ==
    /\ loop = "dropped"
    /\ tasks[1].state = "finished" /\ tasks[1].result = "ok"
    /\ Len(tasks[1].pending) = 2
    /\ Len(sent) = 1 /\ sent[1].type = "RepoDiscovered"

\* ------------------------------------------------------------------ C33
ScrollInBounds ==
    /\ projection.scroll_offset >= 0
    /\ projection.scroll_offset <= Max({0, Len(projection.repositories) - 1})

ScrollRefused ==
    /\ (handled' = Append(handled, "scroll_down") /\ Len(projection.repositories) <= 1)
         => projection'.scroll_offset = projection.scroll_offset
    /\ (handled' = Append(handled, "scroll_up") /\ projection.scroll_offset = 0)
         => projection'.scroll_offset = projection.scroll_offset

\* C33: after any sequence of scroll_down and scroll_up on an App holding n
\* repositories, scroll_offset lies between 0 and max(0, n - 1); scroll_down
\* with n <= 1 and scroll_up at offset 0 leave scroll_offset unchanged.
C33_ScrollBounds == [](ScrollInBounds) /\ [][ScrollRefused]_vars

\* Three repositories, scrolled down three times: the third call found the
\* offset at n - 1.
C33_Witness ==
    /\ Len(projection.repositories) = 3
    /\ handled = <<"scroll_down", "scroll_down", "scroll_down">>
    /\ projection.scroll_offset = 2

\* ------------------------------------------------------------------ C34
Target == get_group_at_display_position(projection, projection.current_selection)

OnManualGroup == Target # None /\ Target[1] \in DOMAIN projection.groups

Moved(ret) == handled' = Called("move_selected_repositories", ret)

MoveApplies == projection.selected_repositories # {} /\ OnManualGroup

MoveLaw ==
    /\ (Moved(TRUE) \/ Moved(FALSE))
         => IF MoveApplies
            THEN /\ Moved(TRUE)
                 /\ \A path \in SelectedPaths(projection) :
                       \A g \in DOMAIN projection'.groups :
                          path \in Elems(projection'.groups[g]) <=> g = Target[1]
                 /\ projection'.selected_repositories = {}
            ELSE /\ Moved(FALSE)
                 /\ projection'.groups = projection.groups
                 /\ projection'.selected_repositories = projection.selected_repositories

\* C34: move_selected_repositories with a non-empty selection and the cursor
\* on a manual group adds every selected repository's path to that group,
\* removes those paths from every other manual group and clears the
\* selection; with an empty selection, the cursor on no group or on an
\* auto-generated group it returns false and changes neither the groups nor
\* the selection.
C34_MoveSelected == [][MoveLaw]_vars

\* Two repositories were moved to Dev, one of them out of Prod.
C34_Witness ==
    /\ handled = Called("move_selected_repositories", TRUE)
    /\ DOMAIN projection.groups = {"Prod", "Dev"}
    /\ Elems(projection.groups["Dev"]) = {RepoA, RepoB}
    /\ projection.groups["Prod"] = <<>>
    /\ projection.selected_repositories = {}

\* ------------------------------------------------------------------ C35
Pressed(key) == handled' # <<>> /\ handled'[1].call = key

CursorInRange ==
    LET count == display_repository_count(projection).count
    IN  (submitted = 0 /\ count > 0)
           => projection.current_selection \in 0..(count - 1)

DoubleG ==
    (Pressed("g") /\ projection.pending_g_key)
       => /\ projection'.current_selection = 0
          /\ ~projection'.pending_g_key

SingleG ==
    (Pressed("g") /\ ~projection.pending_g_key)
       => projection' = [projection EXCEPT !.pending_g_key = TRUE]

OtherKeyCancels ==
    \A key \in Keys \ {"g"} : Pressed(key) => ~projection'.pending_g_key

\* C35: after any sequence of navigation keys handled by handle_organize_key
\* with a positive display count, current_selection stays within
\* [0, display count - 1]; 'g' immediately followed by 'g' sets
\* current_selection to 0, a single 'g' changes nothing but the pending flag,
\* and any other key in between cancels the pending 'g'.
C35_OrganizeCursor ==
    [](CursorInRange) /\ [][DoubleG /\ SingleG /\ OtherKeyCancels]_vars

\* ------------------------------------------------------------------ C36
\* C36: when the TUI main loop exits on a quit key (should_quit set, the
\* command sender dropped, no Command::Quit forwarded), the AppService event
\* loop eventually terminates.
C36_ShutdownAfterQuit ==
    (session.main_loop = "returned") ~> (loop = "exited")

\* ------------------------------------------------------------------ C37
StatusTasks == {i \in DOMAIN tasks : tasks[i].kind = "status"}

RECURSIVE RefreshedIds(_)
RefreshedIds(commands) ==
    IF commands = <<>> THEN 0
    ELSE (IF Head(commands).type = "RefreshStatus" THEN Len(Head(commands).ids) ELSE 0)
         + RefreshedIds(Tail(commands))

DiscoveredHandled == {k \in DOMAIN folded : folded[k].type = "RepoDiscovered"}

FetchedOkHandled == {k \in DOMAIN folded : folded[k].type = "RepoFetched" /\ folded[k].ok}

\* C37: in every reachable state the number of status Operations ever
\* spawned equals the number of RepoDiscovered events handled plus the number
\* of RepoFetched{ok=true} events handled plus the sum of |ids| over the
\* handled RefreshStatus commands; nothing else spawns one, and a repeated
\* RepoDiscovered for a known id spawns another one.
C37_StatusAccounting ==
    /\ Cardinality(StatusTasks) =
          Cardinality(DiscoveredHandled) + Cardinality(FetchedOkHandled)
             + RefreshedIds(handled)
    /\ \A i \in StatusTasks :
          tasks[i].origin \in {"RepoDiscovered", "RepoFetched", "RefreshStatus"}

\* A rescan reported a repository again: two RepoDiscovered events for one id
\* were handled, and each spawned a status Operation for it.
C37_Witness ==
    \E k, m \in DiscoveredHandled :
        /\ k < m
        /\ folded[k].id = folded[m].id
        /\ Cardinality({i \in StatusTasks : /\ tasks[i].id = folded[k].id
                                           /\ tasks[i].origin = "RepoDiscovered"}) = 2

\* ------------------------------------------------------------------ C38
\* The events handle_event has returned from: every forwarded event, but the
\* one the loop is still working on.
HandledCount == IF loop = "handle_event" THEN Len(external) - 1 ELSE Len(external)

Shown(p) == [repositories |-> p.repositories, statuses |-> p.statuses,
             scanning |-> p.scanning]

ProjectionsAgree ==
    session.received = HandledCount
       => Shown(session.tui_model.projection) = Shown(projection)

QuitSetsShouldQuit ==
    apply_event(session.tui_model, QuitRequested).should_quit

\* C38: the TuiModel folds every forwarded event into its own ReadProjection
\* with the same apply function, so whenever the TUI has applied exactly the
\* events the service has handled, TuiModel.projection equals the service's
\* Projection (repositories, statuses, scanning); and a QuitRequested event
\* forwarded to the TUI sets should_quit.
C38_FrontEndAgrees == ProjectionsAgree /\ QuitSetsShouldQuit

\* The front end has applied a scan's discovery, its completion and a status
\* the service folded, and nothing is under way in handle_event.
C38_Witness ==
    /\ loop = "select"
    /\ session.received = Len(external)
    /\ session.tui_model.projection.repositories # <<>>
    /\ session.tui_model.projection.statuses # <<>>
    /\ session.tui_model.messages # <<>>

\* ------------------------------------------------------------------ C39
\* The discovery Operations whose ScanCompleted has not been folded.
ScansInProgress ==
    {i \in DOMAIN tasks :
        /\ tasks[i].kind = "scan"
        /\ ~\E k \in DOMAIN folded : folded[k] = ScanCompleted(i)}

\* C39: Projection.scanning is true from the moment a discovery Operation is
\* started (at startup or by Rescan) until that scan's ScanCompleted is
\* folded, and false otherwise.
C39_ScanningFlag == projection.scanning <=> ScansInProgress # {}

\* ------------------------------------------------------------------ C40
Handles(type) ==
    /\ loop = "select"
    /\ command_rx # <<>>
    /\ Head(command_rx).type = type
    /\ handled' = Append(handled, Head(command_rx))

Inert ==
    /\ tasks' = tasks
    /\ projection' = projection
    /\ repo_paths' = repo_paths
    /\ loop' = "select"

InertLaw ==
    /\ Handles("OpenRepo")
         => /\ Inert
            /\ Len(sent') = Len(sent) + 1
            /\ sent'[Len(sent')].type = "Error"
            /\ sent'[Len(sent')].id = Head(command_rx).id
            /\ event_rx' = Append(event_rx, sent'[Len(sent')])
    /\ Handles("ToggleGroup")
         => /\ Inert
            /\ sent' = sent
            /\ event_rx' = event_rx

\* C40: OpenRepo{id} spawns no Operation and emits exactly one Error event
\* scoped to id; ToggleGroup{name} spawns no Operation and emits no event;
\* both leave the Projection and the path registry unchanged and the loop
\* running.
C40_InertCommands == [][InertLaw]_vars

\* OpenRepo for a known repository was the last command handled, after the
\* scan and the FetchAll before it had spawned their Operations.
C40_Witness ==
    /\ handled = <<FetchAll(TRUE), OpenRepo(RepoA)>>
    /\ RepoA \in DOMAIN projection.repositories
    /\ \E k \in DOMAIN sent : sent[k].type = "Error" /\ sent[k].id = RepoA

====
